---- MODULE Spec2Model ----
(***************************************************************************)
(* Event recurrence expansion, facility conflict validation and booking    *)
(* overlap validation of the community backend (core/models.py), with the  *)
(* event status actions of event/views.py.                                 *)
(*                                                                         *)
(* Dates are day numbers, day 0 being a Monday, so that date.weekday() is  *)
(* the day number modulo 7 (Monday = 0).  A datetime is a number of        *)
(* minutes since day 0 at 00:00; datetimes are compared as Python compares *)
(* naive datetimes.  A clock string 'HH:MM' is the pair <<hour, minute>>.  *)
(***************************************************************************)
EXTENDS Integers, Sequences, FiniteSets, TLC

VARIABLES
    events,      \* stored Event rows (a set of records, one per primary key)
    next_pk,     \* next primary key the events table hands out
    last,        \* the last event operation and the outcome of its clean()
    gen_ev,      \* SpecGen: the event handed to the generator
    gen_out,     \* SpecGen: the occurrence list returned
    gen_pc,      \* SpecGen: "ready" before the call, "done" after
    occ1, occ2,  \* SpecOverlap: the two occurrences compared
    ov_out,      \* SpecOverlap: the boolean returned
    ov_pc,       \* SpecOverlap: "ready" before the call, "done" after
    evA, evB,    \* SpecPair: two events, each validated with the other stored
    resA, resB,  \* SpecPair: outcome of clean() of evA / evB
    pair_done,   \* SpecPair: which of "A", "B" has been validated, and validated again
    bookings,    \* stored Booking rows
    next_bpk,    \* next primary key of the bookings table
    blast,       \* the last booking operation and the outcome of its clean()
    txs,         \* SpecRace: the two concurrent transactions adding an event
    slugs,       \* SpecRace: the slugs of the committed rows (one tenant)
    api_events,  \* SpecApi: the events table seen through EventViewSet
    api_next_pk, \* SpecApi: next primary key of that table
    api_last,    \* SpecApi: the last request and its response
    news,        \* SpecNews: the news item
    now,         \* SpecNews: timezone.now()
    news_last,   \* SpecNews: the last request and its response
    news_table,  \* SpecList: the stored news items
    list_last,   \* SpecList: the last list request and the items it returned
    accounts,    \* SpecUsers: the role of each user row
    acct_last,   \* SpecUsers: the last request and its response
    loop,        \* SpecLoop: the generator and the conflict scan, pass by pass
    reg_event,   \* SpecReg: the event people register for
    regs,        \* SpecReg: the status of each user's registration
    reg_last,    \* SpecReg: the last registration operation and its outcome
    app_roles,   \* SpecApp: the role of each user
    apps,        \* SpecApp: the membership applications
    app_last     \* SpecApp: the last review call and its outcome

vars == <<events, next_pk, last, gen_ev, gen_out, gen_pc, occ1, occ2, ov_out,
          ov_pc, evA, evB, resA, resB, pair_done, bookings, next_bpk, blast,
          txs, slugs, api_events, api_next_pk, api_last, news, now, news_last,
          news_table, list_last, accounts, acct_last, loop, reg_event, regs,
          reg_last, app_roles, apps, app_last>>

eventVars == <<events, next_pk, last>>
genVars == <<gen_ev, gen_out, gen_pc>>
overlapVars == <<occ1, occ2, ov_out, ov_pc>>
pairVars == <<evA, evB, resA, resB, pair_done>>
bookingVars == <<bookings, next_bpk, blast>>
raceVars == <<txs, slugs>>
apiVars == <<api_events, api_next_pk, api_last>>
newsVars == <<news, now, news_last>>
listVars == <<news_table, list_last>>
acctVars == <<accounts, acct_last>>
loopVars == <<loop>>
regVars == <<reg_event, regs, reg_last>>
appVars == <<app_roles, apps, app_last>>
moreVars == <<listVars, acctVars, loopVars, regVars, appVars>>
\* the variables of the specifications above the news list
coreVars ==
    <<eventVars, genVars, overlapVars, pairVars, bookingVars, raceVars, apiVars>>

\* what the operations on the events table leave alone, and likewise for the
\* bookings table
notEventVars ==
    <<genVars, overlapVars, pairVars, bookingVars, raceVars, apiVars, newsVars, moreVars>>
notBookingVars ==
    <<eventVars, genVars, overlapVars, pairVars, raceVars, apiVars, newsVars, moreVars>>

-----------------------------------------------------------------------------
(* Values *)

None == 0 - 1                 \* Python None / SQL NULL in an integer field
NoTime == <<>>                \* a key absent from a recurrence_times entry

PENDING == "pending"
SCHEDULED == "scheduled"
CANCELLED == "cancelled"
COMPLETED == "completed"

NONE == "none"
DAILY == "daily"
WEEKLY == "weekly"
MONTHLY == "monthly"
QUARTERLY == "quarterly"
SEMESTRAL == "semestral"
YEARLY == "yearly"

RecurrenceType == {NONE, DAILY, WEEKLY, MONTHLY, QUARTERLY, SEMESTRAL, YEARLY}

\* default of the max_days parameter of the occurrence generator
max_days == 365
\* the timedelta(days=365) of the conflict search range
search_days == 365

-----------------------------------------------------------------------------
(* datetime arithmetic *)

MinutesPerDay == 24 * 60

date(dt) == dt \div MinutesPerDay
time(dt) == dt % MinutesPerDay
combine(d, t) == d * MinutesPerDay + t
weekday(d) == d % 7
\* strftime('%H:%M') of a time of day
strftime(t) == <<t \div 60, t % 60>>
\* time(hour, minute) of the two integers of 'HH:MM'.split(':')
parse_time(str) == str[1] * 60 + str[2]
\* dict.get(key, default) on a recurrence_times entry
rec_get(value, default) == IF value = NoTime THEN default ELSE value

\* the minute of the day of the clock reading h:m
clock(h, m) == h * 60 + m

-----------------------------------------------------------------------------
(* Event._generate_occurrences_for_validation *)

Occurrence(d, st, et, sdt, edt) ==
    [date |-> d, start_time |-> st, end_time |-> et,
     start_datetime |-> sdt, end_datetime |-> edt]

\* the inner "for rec_time in self.recurrence_times" of one calendar day
RECURSIVE times_of_day(_, _, _, _)
times_of_day(rt, i, current_date, acc) ==
    IF i > Len(rt) THEN acc
    ELSE IF rt[i].day = weekday(current_date)
         THEN LET start_time_str == rec_get(rt[i].start_time, <<0, 0>>)
                  end_time_str == rec_get(rt[i].end_time, <<23, 59>>)
                  start_dt == combine(current_date, parse_time(start_time_str))
                  end_dt == combine(current_date, parse_time(end_time_str))
              IN  times_of_day(rt, i + 1, current_date,
                      Append(acc, Occurrence(current_date, start_time_str,
                                             end_time_str, start_dt, end_dt)))
         ELSE times_of_day(rt, i + 1, current_date, acc)

\* one pass of the while loop of the recurrence_times branch: what the day
\* current_date appends to occurrences
times_step(self, current_date) ==
    IF self.recurrence_type = WEEKLY
    THEN times_of_day(self.recurrence_times, 1, current_date, <<>>)
    ELSE <<>>

\* "in weekdays" for the list parsed from recurrence_days_of_week
InSeq(x, s) == \E i \in 1..Len(s) : s[i] = x

\* should_include without the fallback to the weekday of the start date
should_include_no_fallback(self, current_date) ==
    IF self.recurrence_type = DAILY THEN TRUE
    ELSE IF self.recurrence_type = WEEKLY
         THEN IF self.recurrence_days_of_week # <<>>
              THEN InSeq(weekday(current_date), self.recurrence_days_of_week)
              ELSE TRUE
         ELSE TRUE

should_include(self, current_date) ==
    IF self.recurrence_type = DAILY THEN TRUE
    ELSE IF self.recurrence_type = WEEKLY
         THEN IF self.recurrence_days_of_week # <<>>
              THEN InSeq(weekday(current_date), self.recurrence_days_of_week)
              ELSE weekday(current_date) = weekday(date(self.start_datetime))
         ELSE TRUE

\* one pass of the while loop of the branch without recurrence_times
base_step(self, current_date) ==
    LET base_start_time == time(self.start_datetime)
        base_end_time == time(self.end_datetime)
    IN  IF should_include(self, current_date)
        THEN << Occurrence(current_date,
                           strftime(base_start_time),
                           strftime(base_end_time),
                           combine(current_date, base_start_time),
                           combine(current_date, base_end_time)) >>
        ELSE <<>>

\* "while current_date <= end_limit: ...; current_date += timedelta(days=1)":
\* the passes for the days first..end_limit in date order.  The range is
\* split in halves so that the evaluation depth is logarithmic in its length.
RECURSIVE while_loop(_, _, _, _)
while_loop(self, with_times, first, end_limit) ==
    IF first > end_limit THEN <<>>
    ELSE IF first = end_limit
         THEN IF with_times THEN times_step(self, first)
              ELSE base_step(self, first)
         ELSE LET mid == (first + end_limit) \div 2
              IN  while_loop(self, with_times, first, mid)
                  \o while_loop(self, with_times, mid + 1, end_limit)

\* end_limit_of with the recurrence end date taken as exclusive
end_limit_exclusive(self) ==
    IF self.recurrence_end_date # None
    THEN self.recurrence_end_date - 1
    ELSE date(self.start_datetime) + max_days

end_limit_of(self) ==
    IF self.recurrence_end_date # None
    THEN self.recurrence_end_date
    ELSE date(self.start_datetime) + max_days

\* the generator with the end of a one-off event rebuilt from its start date
\* and its end time of day
generate_same_day_end(self) ==
    IF self.recurrence_type = NONE
    THEN << Occurrence(date(self.start_datetime),
                       strftime(time(self.start_datetime)),
                       strftime(time(self.end_datetime)),
                       self.start_datetime,
                       combine(date(self.start_datetime), time(self.end_datetime))) >>
    ELSE IF self.recurrence_times # <<>>
         THEN while_loop(self, TRUE, date(self.start_datetime), end_limit_of(self))
         ELSE while_loop(self, FALSE, date(self.start_datetime), end_limit_of(self))

generate_occurrences_for_validation(self) ==
    IF self.recurrence_type = NONE
    THEN << Occurrence(date(self.start_datetime),
                       strftime(time(self.start_datetime)),
                       strftime(time(self.end_datetime)),
                       self.start_datetime, self.end_datetime) >>
    ELSE IF self.recurrence_times # <<>>
         THEN while_loop(self, TRUE, date(self.start_datetime), end_limit_of(self))
         ELSE while_loop(self, FALSE, date(self.start_datetime), end_limit_of(self))

\* self.end_datetime.strftime('%H:%M') of the one-off branch and
\* self.end_datetime.time() of the branch without recurrence_times, on an
\* event whose end_datetime is None: AttributeError
raises_attribute_error(self) ==
    /\ self.end_datetime = None
    /\ (self.recurrence_type = NONE \/ self.recurrence_times = <<>>)

-----------------------------------------------------------------------------
(* Event._check_overlap *)

\* _check_overlap with inclusive comparisons
check_overlap_inclusive(o1, o2) ==
    IF o1.date # o2.date THEN FALSE
    ELSE o1.start_datetime <= o2.end_datetime
         /\ o1.end_datetime >= o2.start_datetime

check_overlap(o1, o2) ==
    IF o1.date # o2.date THEN FALSE
    ELSE o1.start_datetime < o2.end_datetime
         /\ o1.end_datetime > o2.start_datetime

-----------------------------------------------------------------------------
(* Event.clean and Event._validate_facility_conflicts *)

\* outcome of clean(): "ok", or the ValidationError raised.  validated tells
\* whether _validate_facility_conflicts ran (occurrences generated, other
\* events read); the remaining fields are the parts of the conflict message.
Outcome(kind, field, validated, other_pk, other_title, on_date, other_start, other_end, my_start, my_end) ==
    [kind |-> kind, field |-> field, validated |-> validated,
     other_pk |-> other_pk, other_title |-> other_title, date |-> on_date,
     other_start_time |-> other_start, other_end_time |-> other_end,
     my_start_time |-> my_start, my_end_time |-> my_end]

Passed(validated) ==
    Outcome("ok", "", validated, None, "", None, <<>>, <<>>, <<>>, <<>>)

\* the two ValidationErrors on end_datetime: "required" (a facility needs an
\* end) and "not_after_start"
StructuralError(msg) ==
    Outcome(msg, "end_datetime", FALSE, None, "", None, <<>>, <<>>, <<>>, <<>>)

ConflictError(other_event, other_occ, my_occ) ==
    Outcome("conflict", "facility", TRUE, other_event.pk, other_event.title,
            other_occ.date, other_occ.start_time, other_occ.end_time,
            my_occ.start_time, my_occ.end_time)

search_start_of(self) == date(self.start_datetime)

search_end_of(self) ==
    IF self.recurrence_end_date # None
    THEN self.recurrence_end_date
    ELSE date(self.start_datetime) + search_days

\* the queryset without the status filter
in_conflicting_events_any_status(self, o) ==
    /\ o.facility = self.facility
    /\ date(o.start_datetime) <= search_end_of(self)
    /\ o.pk # self.pk
    /\ \/ (o.recurrence_type = NONE
           /\ date(o.start_datetime) >= search_start_of(self))
       \/ (o.recurrence_end_date # None
           /\ o.recurrence_end_date >= search_start_of(self))
       \/ (o.recurrence_end_date = None
           /\ date(o.start_datetime) <= search_end_of(self))

\* the queryset without the branch for events that have no recurrence end
in_conflicting_events_dated_only(self, o) ==
    /\ o.facility = self.facility
    /\ o.status \in {PENDING, SCHEDULED}
    /\ date(o.start_datetime) <= search_end_of(self)
    /\ o.pk # self.pk
    /\ \/ (o.recurrence_type = NONE
           /\ date(o.start_datetime) >= search_start_of(self))
       \/ (o.recurrence_end_date # None
           /\ o.recurrence_end_date >= search_start_of(self))

\* the queryset without the exclude(pk=self.pk)
in_conflicting_events_with_self(self, o) ==
    /\ o.facility = self.facility
    /\ o.status \in {PENDING, SCHEDULED}
    /\ date(o.start_datetime) <= search_end_of(self)
    /\ \/ (o.recurrence_type = NONE
           /\ date(o.start_datetime) >= search_start_of(self))
       \/ (o.recurrence_end_date # None
           /\ o.recurrence_end_date >= search_start_of(self))
       \/ (o.recurrence_end_date = None
           /\ date(o.start_datetime) <= search_end_of(self))

\* the two filter() calls and the exclude() of the conflicting_events queryset
in_conflicting_events(self, o) ==
    /\ o.facility = self.facility
    /\ o.status \in {PENDING, SCHEDULED}
    /\ date(o.start_datetime) <= search_end_of(self)
    /\ o.pk # self.pk
    /\ \/ (o.recurrence_type = NONE
           /\ date(o.start_datetime) >= search_start_of(self))
       \/ (o.recurrence_end_date # None
           /\ o.recurrence_end_date >= search_start_of(self))
       \/ (o.recurrence_end_date = None
           /\ date(o.start_datetime) <= search_end_of(self))

\* Meta.ordering: newest row first
RECURSIVE newest_first(_)
newest_first(S) ==
    IF S = {} THEN <<>>
    ELSE LET o == CHOOSE x \in S : \A y \in S : y.pk <= x.pk
         IN  <<o>> \o newest_first(S \ {o})

conflicting_events(self, stored) ==
    newest_first({o \in stored : in_conflicting_events(self, o)})

\* "for my_occ in my_occurrences: for other_occ in other_occurrences": the
\* first overlapping pair in iteration order, <<0, 0>> when there is none
Least(S) == CHOOSE x \in S : \A y \in S : x <= y

\* the scan going on to the last overlapping pair
first_pair_goes_on(my_occurrences, other_occurrences) ==
    LET Hits(i) == {j \in 1..Len(other_occurrences) :
                       check_overlap(my_occurrences[i], other_occurrences[j])}
        outer == {i \in 1..Len(my_occurrences) : Hits(i) # {}}
        Greatest(S) == CHOOSE x \in S : \A y \in S : x >= y
    IN  IF outer = {} THEN <<0, 0>>
        ELSE <<Greatest(outer), Greatest(Hits(Greatest(outer)))>>

first_pair(my_occurrences, other_occurrences) ==
    LET Hits(i) == {j \in 1..Len(other_occurrences) :
                       check_overlap(my_occurrences[i], other_occurrences[j])}
        outer == {i \in 1..Len(my_occurrences) : Hits(i) # {}}
    IN  IF outer = {} THEN <<0, 0>>
        ELSE <<Least(outer), Least(Hits(Least(outer)))>>

\* "for other_event in conflicting_events"
RECURSIVE scan_events(_, _, _)
scan_events(my_occurrences, others, k) ==
    IF k > Len(others) THEN Passed(TRUE)
    ELSE LET other_occurrences == generate_occurrences_for_validation(others[k])
             p == first_pair(my_occurrences, other_occurrences)
         IN  IF p # <<0, 0>>
             THEN ConflictError(others[k], other_occurrences[p[2]],
                                my_occurrences[p[1]])
             ELSE scan_events(my_occurrences, others, k + 1)

validate_facility_conflicts(self, stored) ==
    scan_events(generate_occurrences_for_validation(self),
                conflicting_events(self, stored), 1)

\* clean() looking for conflicts before it compares the end with the start
clean_conflicts_first(self, stored) ==
    IF self.facility # None /\ self.end_datetime = None
    THEN StructuralError("required")
    ELSE IF /\ self.facility # None
            /\ self.end_datetime # None
            /\ self.status \in {PENDING, SCHEDULED}
         THEN LET found == validate_facility_conflicts(self, stored)
              IN  IF found.kind = "conflict" THEN found
                  ELSE IF self.end_datetime <= self.start_datetime
                       THEN [StructuralError("not_after_start") EXCEPT !.validated = TRUE]
                       ELSE found
         ELSE IF self.end_datetime # None /\ self.end_datetime <= self.start_datetime
              THEN StructuralError("not_after_start")
              ELSE Passed(FALSE)

\* clean() accepting an end equal to the start
clean_end_may_equal_start(self, stored) ==
    IF self.facility # None /\ self.end_datetime = None
    THEN StructuralError("required")
    ELSE IF self.end_datetime # None /\ self.end_datetime < self.start_datetime
         THEN StructuralError("not_after_start")
         ELSE IF /\ self.facility # None
                 /\ self.end_datetime # None
                 /\ self.status \in {PENDING, SCHEDULED}
              THEN validate_facility_conflicts(self, stored)
              ELSE Passed(FALSE)

clean(self, stored) ==
    IF self.facility # None /\ self.end_datetime = None
    THEN StructuralError("required")
    ELSE IF self.end_datetime # None /\ self.end_datetime <= self.start_datetime
         THEN StructuralError("not_after_start")
         ELSE IF /\ self.facility # None
                 /\ self.end_datetime # None
                 /\ self.status \in {PENDING, SCHEDULED}
              THEN validate_facility_conflicts(self, stored)
              ELSE Passed(FALSE)

-----------------------------------------------------------------------------
(* Event rows and the inputs of the event operations *)

Event(pk, title, facility, status, start_datetime, end_datetime, recurrence_type, recurrence_end_date, recurrence_days_of_week, recurrence_times) ==
    [pk |-> pk, title |-> title, facility |-> facility, status |-> status,
     start_datetime |-> start_datetime, end_datetime |-> end_datetime,
     recurrence_type |-> recurrence_type,
     recurrence_end_date |-> recurrence_end_date,
     recurrence_days_of_week |-> recurrence_days_of_week,
     recurrence_times |-> recurrence_times]

\* the CheckConstraints of Event.Meta: what the events table can hold
event_end_after_start(e) ==
    e.end_datetime = None \/ e.end_datetime > e.start_datetime

event_facility_requires_end_datetime(e) ==
    e.facility = None \/ e.end_datetime # None

Storable(e) == event_end_after_start(e) /\ event_facility_requires_end_datetime(e)

\* largest number of rows of the events table
MaxEvents == 2

\* day 0 is a Monday: the Monday of the next week, and the day before it
Monday == 1 * 7
Sunday == Monday - 1

At(d, h) == combine(d, clock(h, 0))

TitleOf(recurrence_type) ==
    IF recurrence_type = NONE THEN "Reunion" ELSE "Taller"

\* field values of an event without recurrence_days_of_week and recurrence_times
Input(facility, status, start_datetime, end_datetime, recurrence_type, recurrence_end_date) ==
    Event(None, TitleOf(recurrence_type), facility, status, start_datetime,
          end_datetime, recurrence_type, recurrence_end_date, <<>>, <<>>)

\* the field values an event is added or changed with: one-off events on a
\* Monday (18-20, 19-21, 20-21), one that kept an earlier recurrence_end_date,
\* a daily one until Tuesday, one from Sunday to Monday, events without a
\* facility, without an end, and with an end that is not after the start
EventInputs ==
    { Input(1, PENDING, At(Monday, 18), At(Monday, 20), NONE, None),
      Input(1, SCHEDULED, At(Monday, 19), At(Monday, 21), NONE, None),
      Input(1, PENDING, At(Monday, 20), At(Monday, 21), NONE, None),
      Input(1, PENDING, At(Monday, 19), At(Monday, 21), NONE, Monday - 2),
      Input(1, PENDING, At(Monday, 19), At(Monday, 21), DAILY, Monday + 1),
      Input(1, PENDING, At(Sunday, 18), At(Monday, 19), NONE, None),
      Input(None, PENDING, At(Monday, 19), At(Monday, 21), NONE, None),
      Input(None, PENDING, At(Monday, 19), None, NONE, None),
      Input(1, PENDING, At(Monday, 19), None, NONE, None),
      Input(1, PENDING, At(Monday, 19), At(Monday, 18), NONE, None),
      Input(None, PENDING, At(Monday, 19), At(Monday, 19), NONE, None) }

-----------------------------------------------------------------------------
(* The events table: admin add / change (full_clean, then save) and the     *)
(* cancel and complete actions of EventViewSet                              *)

\* what is remembered of the last operation: the operation, whether the
\* event it was given lacked a mandatory end or had an end not after its
\* start, and the outcome of its clean()
Last(op, self, kind) ==
    [op |-> op,
     lacks_end |-> (self.facility # None /\ self.end_datetime = None),
     end_not_after |-> (self.end_datetime # None
                        /\ self.end_datetime <= self.start_datetime),
     kind |-> kind]

InitLast ==
    [op |-> "none", lacks_end |-> FALSE, end_not_after |-> FALSE, kind |-> "ok"]

with_pk(self, pk) == [self EXCEPT !.pk = pk]

\* a new event: clean() runs on the unsaved instance (pk is None), save()
\* inserts the row when clean() raised nothing
EventAdd(input) ==
    /\ next_pk <= MaxEvents
    /\ LET result == clean(input, events)
       IN  /\ last' = Last("add", input, result.kind)
           /\ IF result.kind = "ok"
              THEN /\ events' = events \cup {with_pk(input, next_pk)}
                   /\ next_pk' = next_pk + 1
              ELSE UNCHANGED <<events, next_pk>>
    /\ UNCHANGED notEventVars

\* an existing event with new field values: clean(), then save() updates the row
EventChange(row, input) ==
    /\ row \in events
    /\ LET self == [with_pk(input, row.pk) EXCEPT !.title = row.title]
           result == clean(self, events)
       IN  /\ last' = Last("change", self, result.kind)
           /\ IF result.kind = "ok"
              THEN events' = (events \ {row}) \cup {self}
              ELSE UNCHANGED events
    /\ UNCHANGED <<next_pk, notEventVars>>

\* EventViewSet.cancel
cancel(row) ==
    /\ row \in events
    /\ LET event == [row EXCEPT !.status = CANCELLED]
       IN  /\ events' = (events \ {row}) \cup {event}
           /\ last' = Last("cancel", event, "ok")
    /\ UNCHANGED <<next_pk, notEventVars>>

\* EventViewSet.complete
complete(row) ==
    /\ row \in events
    /\ LET event == [row EXCEPT !.status = COMPLETED]
       IN  /\ events' = (events \ {row}) \cup {event}
           /\ last' = Last("complete", event, "ok")
    /\ UNCHANGED <<next_pk, notEventVars>>

-----------------------------------------------------------------------------
(* Booking.clean and Booking.cancel *)

CONFIRMED == "confirmed"

Booking(pk, facility, status, start_at, end_at) ==
    [pk |-> pk, facility |-> facility, status |-> status,
     start_at |-> start_at, end_at |-> end_at]

\* outcome of Booking.clean(): "ok" or the ValidationError raised; queried
\* tells whether the overlap queryset was evaluated
BookingOutcome(kind, queried) == [kind |-> kind, queried |-> queried]

\* the overlap queryset with inclusive comparisons
overlap_qs_inclusive(self, stored) ==
    { o \in stored :
        /\ o.facility = self.facility
        /\ o.status \in {CONFIRMED, PENDING}
        /\ o.pk # self.pk
        /\ o.start_at <= self.end_at
        /\ o.end_at >= self.start_at }

\* the overlap queryset looking at confirmed bookings only
overlap_qs_confirmed_only(self, stored) ==
    { o \in stored :
        /\ o.facility = self.facility
        /\ o.status = CONFIRMED
        /\ o.pk # self.pk
        /\ o.start_at < self.end_at
        /\ o.end_at > self.start_at }

overlap_qs(self, stored) ==
    { o \in stored :
        /\ o.facility = self.facility
        /\ o.status \in {CONFIRMED, PENDING}
        /\ o.pk # self.pk
        /\ o.start_at < self.end_at
        /\ o.end_at > self.start_at }

\* Booking.clean() returning early for a cancelled booking before the end check
booking_clean_cancelled_first(self, stored) ==
    IF self.status = CANCELLED
    THEN BookingOutcome("ok", FALSE)
    ELSE IF self.end_at <= self.start_at
         THEN BookingOutcome("not_after_start", FALSE)
         ELSE IF overlap_qs(self, stored) # {}
              THEN BookingOutcome("overlap", TRUE)
              ELSE BookingOutcome("ok", TRUE)

booking_clean(self, stored) ==
    IF self.end_at <= self.start_at
    THEN BookingOutcome("not_after_start", FALSE)
    ELSE IF self.status = CANCELLED
         THEN BookingOutcome("ok", FALSE)
         ELSE IF overlap_qs(self, stored) # {}
              THEN BookingOutcome("overlap", TRUE)
              ELSE BookingOutcome("ok", TRUE)

\* largest number of rows of the bookings table
MaxBookings == 2

\* the field values a booking is added or changed with: Monday 18-19, 19-20
\* and 18-20, and windows whose end is at or before the start
BookingInputs ==
    { Booking(None, f[1], f[2], At(Monday, w[1]), At(Monday, w[2])) :
        f \in {<<1, CONFIRMED>>, <<1, PENDING>>, <<1, CANCELLED>>, <<2, CONFIRMED>>},
        w \in {<<18, 19>>, <<19, 20>>, <<18, 20>>} }
    \cup
    { Booking(None, 1, st, At(Monday, w[1]), At(Monday, w[2])) :
        st \in {CONFIRMED, CANCELLED},
        w \in {<<19, 19>>, <<20, 18>>} }

\* what is remembered of the last operation: the operation, the booking it
\* was given and the outcome of its clean()
BLast(op, self, result) ==
    [op |-> op, self |-> self, status |-> self.status,
     end_not_after |-> (self.end_at <= self.start_at),
     kind |-> result.kind, queried |-> result.queried]

NoBooking == Booking(None, None, CONFIRMED, 0, 0)

InitBLast ==
    [op |-> "none", self |-> NoBooking, status |-> CONFIRMED, end_not_after |-> FALSE,
     kind |-> "ok", queried |-> FALSE]

\* a new booking: clean(), then save() inserts the row
BookingAdd(input) ==
    /\ next_bpk <= MaxBookings
    /\ LET result == booking_clean(input, bookings)
       IN  /\ blast' = BLast("add", input, result)
           /\ IF result.kind = "ok"
              THEN /\ bookings' = bookings \cup {with_pk(input, next_bpk)}
                   /\ next_bpk' = next_bpk + 1
              ELSE UNCHANGED <<bookings, next_bpk>>
    /\ UNCHANGED notBookingVars

\* an existing booking with new field values: clean(), then save()
BookingChange(row, input) ==
    /\ row \in bookings
    /\ LET self == with_pk(input, row.pk)
           result == booking_clean(self, bookings)
       IN  /\ blast' = BLast("change", self, result)
           /\ IF result.kind = "ok"
              THEN bookings' = (bookings \ {row}) \cup {self}
              ELSE UNCHANGED bookings
    /\ UNCHANGED <<next_bpk, notBookingVars>>

\* Booking.cancel
booking_cancel(row) ==
    /\ row \in bookings
    /\ LET self == [row EXCEPT !.status = CANCELLED]
       IN  /\ bookings' = (bookings \ {row}) \cup {self}
           /\ blast' = BLast("cancel", self, BookingOutcome("ok", FALSE))
    /\ UNCHANGED <<next_bpk, notBookingVars>>

-----------------------------------------------------------------------------
(* Two concurrent requests that add an event: each validates against the    *)
(* committed rows, then saves; the table's constraints are all the database *)
(* checks on the insert                                                     *)

\* django.utils.text.slugify on the titles used here: lower case
slugify(title) ==
    CASE title = "Reunion" -> "reunion"
      [] title = "Taller" -> "taller"
      [] title = "Asamblea" -> "asamblea"
      [] OTHER -> ""

\* Event.save(): a blank slug is derived from the title
saved_slug(slug, title) == IF slug = "" THEN slugify(title) ELSE slug

\* a transaction that has not validated yet
Tx(self, slug) == [self |-> self, slug |-> slug, pc |-> "begun", kind |-> "ok"]

\* full_clean() in transaction t: clean() reads the committed rows, and
\* unique_together is validated for the slug the form was given
TxValidate(t) ==
    /\ t \in DOMAIN txs
    /\ txs[t].pc = "begun"
    /\ LET result == clean(txs[t].self, events)
           kind == IF result.kind # "ok" THEN result.kind
                   ELSE IF txs[t].slug # "" /\ txs[t].slug \in slugs THEN "unique"
                        ELSE "ok"
       IN  txs' = [txs EXCEPT ![t].pc = IF kind = "ok" THEN "validated" ELSE "refused",
                              ![t].kind = kind]
    /\ UNCHANGED <<eventVars, slugs, genVars, overlapVars, pairVars, bookingVars,
                   apiVars, newsVars,
                   moreVars>>

\* save() and commit in transaction t: the insert fails with IntegrityError
\* on a CheckConstraint or on unique_together (tenant, slug)
TxCommit(t) ==
    /\ t \in DOMAIN txs
    /\ txs[t].pc = "validated"
    /\ LET self == txs[t].self
           slug == saved_slug(txs[t].slug, self.title)
       IN  IF Storable(self) /\ slug \notin slugs
           THEN /\ events' = events \cup {with_pk(self, next_pk)}
                /\ next_pk' = next_pk + 1
                /\ slugs' = slugs \cup {slug}
                /\ txs' = [txs EXCEPT ![t].pc = "committed"]
           ELSE /\ txs' = [txs EXCEPT ![t].pc = "integrity_error"]
                /\ UNCHANGED <<events, next_pk, slugs>>
    /\ UNCHANGED <<last, genVars, overlapVars, pairVars, bookingVars, apiVars, newsVars,
                   moreVars>>

-----------------------------------------------------------------------------
(* User.is_member / User.is_admin, IsAuthorOrReadOnly and the requests of   *)
(* EventViewSet                                                             *)

REGISTERED == "registered"
MEMBER == "member"
ADMIN == "admin"

\* request.user: a User row, or AnonymousUser when no token is sent
User(id, role, is_superuser, tenant_id) ==
    [id |-> id, role |-> role, is_superuser |-> is_superuser,
     tenant_id |-> tenant_id, is_authenticated |-> TRUE]

AnonymousUser ==
    [id |-> None, role |-> "", is_superuser |-> FALSE, tenant_id |-> None,
     is_authenticated |-> FALSE]

is_member(user) ==
    IF user.is_superuser THEN TRUE
    ELSE user.role \in {MEMBER, ADMIN}

is_admin(user) ==
    IF user.is_superuser THEN TRUE
    ELSE user.role = ADMIN

SAFE_METHODS == {"GET", "HEAD", "OPTIONS"}

has_permission(method, user) ==
    IF method \in SAFE_METHODS THEN TRUE
    ELSE user.is_authenticated /\ is_member(user)

\* has_object_permission letting every member write
has_object_permission_any_member(method, user, obj) ==
    IF method \in SAFE_METHODS THEN TRUE
    ELSE user.is_authenticated /\ is_member(user)

has_object_permission(method, user, obj) ==
    IF method \in SAFE_METHODS THEN TRUE
    ELSE /\ user.is_authenticated
         /\ is_member(user)
         /\ (obj.user = user.id \/ is_admin(user))

\* a row of the events table as the viewset uses it
ApiEvent(pk, user, tenant_id, status) ==
    [pk |-> pk, user |-> user, tenant_id |-> tenant_id, status |-> status]

\* get_queryset() of a request without query parameters: the tenant filter
get_queryset(user, rows) ==
    IF user.is_authenticated /\ user.tenant_id # None
    THEN {e \in rows : e.tenant_id = user.tenant_id}
    ELSE IF user.is_authenticated
         THEN {e \in rows : e.tenant_id = None}
         ELSE {e \in rows : e.tenant_id = 1}

\* the response to a request refused by the permission class: 401 without
\* credentials, 403 with them
denied(user) == IF user.is_authenticated THEN 403 ELSE 401

ApiLast(op, user, pk, code) == [op |-> op, user |-> user, pk |-> pk, code |-> code]

InitApiLast == ApiLast("none", AnonymousUser, None, 200)

\* largest number of rows the requests create
MaxApiEvents == 1

\* POST /events/: check_permissions, serializer.is_valid, perform_create
ApiCreate(user, valid) ==
    /\ api_next_pk <= MaxApiEvents
    /\ IF ~has_permission("POST", user)
       THEN /\ api_last' = ApiLast("create", user, None, denied(user))
            /\ UNCHANGED <<api_events, api_next_pk>>
       ELSE IF ~valid
            THEN /\ api_last' = ApiLast("create", user, None, 400)
                 /\ UNCHANGED <<api_events, api_next_pk>>
            ELSE LET tenant_id == IF user.tenant_id # None THEN user.tenant_id ELSE 1
                 IN  /\ api_events' = api_events \cup
                            {ApiEvent(api_next_pk, user.id, tenant_id, PENDING)}
                     /\ api_next_pk' = api_next_pk + 1
                     /\ api_last' = ApiLast("create", user, api_next_pk, 201)
    /\ UNCHANGED <<eventVars, genVars, overlapVars, pairVars, bookingVars, raceVars, newsVars,
                   moreVars>>

\* check_permissions, then get_object(): the code a detail request with an
\* unsafe method stops with, or 0 when it goes on with the row
detail_refusal(method, user, pk) ==
    IF ~has_permission(method, user) THEN denied(user)
    ELSE LET found == {e \in get_queryset(user, api_events) : e.pk = pk}
         IN  IF found = {} THEN 404
             ELSE IF \E obj \in found : ~has_object_permission(method, user, obj)
                  THEN denied(user)
                  ELSE 0

\* a detail request that writes status into the row when it is let through
write_status(op, method, user, pk, status) ==
    LET code == detail_refusal(method, user, pk)
    IN  /\ IF code # 0
           THEN /\ api_last' = ApiLast(op, user, pk, code)
                /\ UNCHANGED api_events
           ELSE /\ api_events' = {IF e.pk = pk THEN [e EXCEPT !.status = status] ELSE e :
                                    e \in api_events}
                /\ api_last' = ApiLast(op, user, pk, 200)
        /\ UNCHANGED <<api_next_pk, eventVars, genVars, overlapVars, pairVars,
                       bookingVars, raceVars, newsVars,
                   moreVars>>

\* PATCH /events/{pk}/ with a status in the payload
ApiUpdate(user, pk, valid) ==
    IF valid \/ detail_refusal("PATCH", user, pk) # 0
    THEN write_status("update", "PATCH", user, pk, SCHEDULED)
    ELSE /\ api_last' = ApiLast("update", user, pk, 400)
         /\ UNCHANGED <<api_events, api_next_pk, eventVars, genVars, overlapVars,
                        pairVars, bookingVars, raceVars, newsVars,
                   moreVars>>

\* PATCH /events/{pk}/cancel/ and /complete/ behind the permission class
ApiCancel(user, pk) == write_status("cancel", "PATCH", user, pk, CANCELLED)

ApiComplete(user, pk) == write_status("complete", "PATCH", user, pk, COMPLETED)

\* DELETE /events/{pk}/
ApiDestroy(user, pk) ==
    LET code == detail_refusal("DELETE", user, pk)
    IN  /\ IF code # 0
           THEN /\ api_last' = ApiLast("destroy", user, pk, code)
                /\ UNCHANGED api_events
           ELSE /\ api_events' = {e \in api_events : e.pk # pk}
                /\ api_last' = ApiLast("destroy", user, pk, 204)
        /\ UNCHANGED <<api_next_pk, eventVars, genVars, overlapVars, pairVars,
                       bookingVars, raceVars, newsVars,
                   moreVars>>

\* GET /events/{pk}/: public
ApiRetrieve(user, pk) ==
    /\ api_last' = ApiLast("retrieve", user, pk,
                           IF \E e \in get_queryset(user, api_events) : e.pk = pk
                           THEN 200 ELSE 404)
    /\ UNCHANGED <<api_events, api_next_pk, eventVars, genVars, overlapVars, pairVars,
                   bookingVars, raceVars, newsVars,
                   moreVars>>

-----------------------------------------------------------------------------
(* The publish, archive and draft actions of NewsViewSet                    *)

DRAFT == "draft"
PUBLISHED == "published"
ARCHIVED == "archived"

News(status, author, tenant_id, published_at, published_by, archived_at, archived_by) ==
    [status |-> status, author |-> author, tenant_id |-> tenant_id,
     published_at |-> published_at, published_by |-> published_by,
     archived_at |-> archived_at, archived_by |-> archived_by]

NoNews == News("", None, None, None, None, None, None)

\* IsAuthorOrReadOnly of the news views: the row's author field
news_has_object_permission(method, user, obj) ==
    IF method \in SAFE_METHODS THEN TRUE
    ELSE /\ user.is_authenticated
         /\ is_member(user)
         /\ (obj.author = user.id \/ is_admin(user))

\* get_queryset() of a request without query parameters
news_get_queryset(user, rows) ==
    LET tenant_id == IF user.is_authenticated /\ user.tenant_id # None
                     THEN user.tenant_id ELSE 1
        of_tenant == {n \in rows : n.tenant_id = tenant_id}
    IN  IF user.is_authenticated THEN of_tenant
        ELSE {n \in of_tenant : n.status = PUBLISHED}

\* check_permissions, then get_object(): the code the request stops with, or
\* 0 when it goes on with the news item
news_refusal(user) ==
    IF ~has_permission("POST", user) THEN denied(user)
    ELSE LET found == news_get_queryset(user, {news})
         IN  IF found = {} THEN 404
             ELSE IF ~news_has_object_permission("POST", user, news)
                  THEN denied(user)
                  ELSE 0

NewsLast(op, user, code) == [op |-> op, user |-> user, code |-> code]

InitNewsLast == NewsLast("none", AnonymousUser, 200)

\* latest reading of the clock
MaxClock == 2

\* time passes between requests
Tick ==
    /\ now < MaxClock
    /\ now' = now + 1
    /\ UNCHANGED <<news, news_last, eventVars, genVars, overlapVars, pairVars,
                   bookingVars, raceVars, apiVars,
                   moreVars>>

\* publish that does not test the status the item already has
publish_unconditional(user) ==
    LET code == news_refusal(user)
    IN  /\ IF code # 0
           THEN /\ news_last' = NewsLast("publish", user, code)
                /\ UNCHANGED news
           ELSE /\ news' = [news EXCEPT !.status = PUBLISHED,
                                        !.published_at = now,
                                        !.published_by = user.id]
                /\ news_last' = NewsLast("publish", user, 200)
        /\ UNCHANGED <<now, eventVars, genVars, overlapVars, pairVars, bookingVars,
                       raceVars, apiVars,
                   moreVars>>

\* NewsViewSet.publish
publish(user) ==
    LET code == news_refusal(user)
    IN  /\ IF code # 0
           THEN /\ news_last' = NewsLast("publish", user, code)
                /\ UNCHANGED news
           ELSE IF news.status = PUBLISHED
                THEN /\ news_last' = NewsLast("publish", user, 400)
                     /\ UNCHANGED news
                ELSE /\ news' = [news EXCEPT !.status = PUBLISHED,
                                             !.published_at = now,
                                             !.published_by = user.id]
                     /\ news_last' = NewsLast("publish", user, 200)
        /\ UNCHANGED <<now, eventVars, genVars, overlapVars, pairVars, bookingVars,
                       raceVars, apiVars,
                   moreVars>>

\* NewsViewSet.archive
archive(user) ==
    LET code == news_refusal(user)
    IN  /\ IF code # 0
           THEN /\ news_last' = NewsLast("archive", user, code)
                /\ UNCHANGED news
           ELSE IF news.status = ARCHIVED
                THEN /\ news_last' = NewsLast("archive", user, 400)
                     /\ UNCHANGED news
                ELSE /\ news' = [news EXCEPT !.status = ARCHIVED,
                                             !.archived_at = now,
                                             !.archived_by = user.id]
                     /\ news_last' = NewsLast("archive", user, 200)
        /\ UNCHANGED <<now, eventVars, genVars, overlapVars, pairVars, bookingVars,
                       raceVars, apiVars,
                   moreVars>>

\* NewsViewSet.draft
draft(user) ==
    LET code == news_refusal(user)
    IN  /\ IF code # 0
           THEN /\ news_last' = NewsLast("draft", user, code)
                /\ UNCHANGED news
           ELSE IF news.status = DRAFT
                THEN /\ news_last' = NewsLast("draft", user, 400)
                     /\ UNCHANGED news
                ELSE /\ news' = [news EXCEPT !.status = DRAFT]
                     /\ news_last' = NewsLast("draft", user, 200)
        /\ UNCHANGED <<now, eventVars, genVars, overlapVars, pairVars, bookingVars,
                       raceVars, apiVars,
                   moreVars>>

-----------------------------------------------------------------------------
(* NewsViewSet.get_queryset with the query parameters of a list request     *)

\* a stored news item; title and content are sequences of letters
NewsItem(pk, status, author, tenant_id, category, published_at, title, content) ==
    [pk |-> pk, status |-> status, author |-> author, tenant_id |-> tenant_id,
     category |-> category, published_at |-> published_at, title |-> title,
     content |-> content]

\* request.query_params of a list request; a parameter that was not sent (or
\* was sent empty) is "" for status, <<>> for search and None for the others
QueryParams(status, category, author, date_from, date_to, search) ==
    [status |-> status, category |-> category, author |-> author,
     date_from |-> date_from, date_to |-> date_to, search |-> search]

\* title__icontains / content__icontains on lower-case letters
icontains(text, search) ==
    \E i \in 0..(Len(text) - Len(search)) :
        \A k \in 1..Len(search) : text[i + k] = search[k]

\* get_queryset of a list request, filter by filter; the result is the set
\* of rows of the queryset (order_by and the pagination select among them)
list_queryset(user, query_params, rows) ==
    LET tenant_id == IF user.is_authenticated /\ user.tenant_id # None
                     THEN user.tenant_id ELSE 1
        of_tenant == {n \in rows : n.tenant_id = tenant_id}
        by_status ==
            IF query_params.status # ""
            THEN {n \in of_tenant : n.status = query_params.status}
            ELSE IF ~user.is_authenticated
                 THEN {n \in of_tenant : n.status = PUBLISHED}
                 ELSE of_tenant
        by_category ==
            IF query_params.category # None
            THEN {n \in by_status : n.category = query_params.category}
            ELSE by_status
        by_author ==
            IF query_params.author # None
            THEN {n \in by_category : n.author = query_params.author}
            ELSE by_category
        from_date ==
            IF query_params.date_from # None
            THEN {n \in by_author : /\ n.published_at # None
                                    /\ n.published_at >= query_params.date_from}
            ELSE by_author
        to_date ==
            IF query_params.date_to # None
            THEN {n \in from_date : /\ n.published_at # None
                                    /\ n.published_at <= query_params.date_to}
            ELSE from_date
    IN  IF query_params.search # <<>>
        THEN {n \in to_date : icontains(n.title, query_params.search)}
             \cup {n \in to_date : icontains(n.content, query_params.search)}
        ELSE to_date

ListLast(op, user, query_params, results) ==
    [op |-> op, user |-> user, query_params |-> query_params, results |-> results]

InitListLast == ListLast("", AnonymousUser, QueryParams("", None, None, None, None, <<>>), {})

\* GET /news/: IsAuthorOrReadOnly lets every reader in; the response holds
\* rows of get_queryset()
list(user, query_params) ==
    /\ list_last' = ListLast("list", user, query_params,
                             list_queryset(user, query_params, news_table))
    /\ UNCHANGED <<news_table, coreVars, newsVars, acctVars, loopVars, regVars, appVars>>

-----------------------------------------------------------------------------
(* The user endpoints: CreateUserView, ManageUserView and                   *)
(* AdminUserRoleUpdateView                                                  *)

Roles == {REGISTERED, MEMBER, ADMIN}

\* a row of the user table
Account(name, role, is_superuser) ==
    [name |-> name, role |-> role, is_superuser |-> is_superuser]

\* the JSON body of a request; role = "" when the body has no role key
Payload(name, role) == [name |-> name, role |-> role]

\* validated_data of UserSerializer with the role kept as sent
validated_data_role_writable(payload) ==
    [name |-> payload.name, role |-> payload.role]

\* validated_data of UserSerializer: role is read_only, so the serializer
\* never takes it from the body
validated_data(payload) ==
    [name |-> payload.name, role |-> ""]

\* UserManager.create_user: the role of the new row ("" when ValueError)
create_user(extra_fields) ==
    LET role == IF extra_fields.role = "" THEN REGISTERED ELSE extra_fields.role
    IN  IF role \notin Roles THEN "" ELSE role

\* UserSerializer.create: pops the role, then create_user
serializer_create(data) ==
    Account(data.name, create_user([data EXCEPT !.role = ""]), FALSE)

\* UserSerializer.update: ModelSerializer.update sets every validated field
serializer_update(instance, data) ==
    [instance EXCEPT !.name = data.name,
                     !.role = IF data.role = "" THEN @ ELSE data.role]

AcctLast(op, user, pk, role, code) ==
    [op |-> op, user |-> user, pk |-> pk, role |-> role, code |-> code]

InitAcctLast == AcctLast("none", None, None, "", 200)

MaxUsers == 2

\* POST /api/user/create/ (no authentication, no permission class)
CreateUser(payload, valid) ==
    /\ Len(accounts) < MaxUsers
    /\ IF ~valid
       THEN /\ acct_last' = AcctLast("create", None, None, payload.role, 400)
            /\ UNCHANGED accounts
       ELSE /\ accounts' = Append(accounts, serializer_create(validated_data(payload)))
            /\ acct_last' = AcctLast("create", None, Len(accounts) + 1, payload.role, 201)
    /\ UNCHANGED <<coreVars, newsVars, listVars, loopVars, regVars, appVars>>

\* PATCH /api/user/me/: IsAuthenticated, get_object() is request.user
ManageUser(user, payload, valid) ==
    /\ IF user = None
       THEN /\ acct_last' = AcctLast("me", user, None, payload.role, 401)
            /\ UNCHANGED accounts
       ELSE IF ~valid
            THEN /\ acct_last' = AcctLast("me", user, user, payload.role, 400)
                 /\ UNCHANGED accounts
            ELSE /\ accounts' =
                        [accounts EXCEPT
                            ![user] = serializer_update(@, validated_data(payload))]
                 /\ acct_last' = AcctLast("me", user, user, payload.role, 200)
    /\ UNCHANGED <<coreVars, newsVars, listVars, loopVars, regVars, appVars>>

\* IsAdminRoleUser.has_permission for an authenticated requester
IsAdminRoleUser(user) == is_admin(accounts[user])

\* UserRoleUpdateSerializer (partial): the role to store, "" when the body
\* has no role key, "invalid" when the value is not a choice of User.Role
validate_role(role) ==
    IF role = "" THEN "" ELSE IF role \notin Roles THEN "invalid" ELSE role

\* PATCH /api/user/admin/users/<pk>/
RoleUpdate(user, pk, role) ==
    /\ IF user = None
       THEN /\ acct_last' = AcctLast("role", user, pk, role, 401)
            /\ UNCHANGED accounts
       ELSE IF ~IsAdminRoleUser(user)
            THEN /\ acct_last' = AcctLast("role", user, pk, role, 403)
                 /\ UNCHANGED accounts
            ELSE IF pk \notin DOMAIN accounts
                 THEN /\ acct_last' = AcctLast("role", user, pk, role, 404)
                      /\ UNCHANGED accounts
                 ELSE IF validate_role(role) = "invalid"
                      THEN /\ acct_last' = AcctLast("role", user, pk, role, 400)
                           /\ UNCHANGED accounts
                      ELSE /\ accounts' =
                                  [accounts EXCEPT
                                      ![pk].role = IF validate_role(role) = ""
                                                   THEN @ ELSE validate_role(role)]
                           /\ acct_last' = AcctLast("role", user, pk, role, 200)
    /\ UNCHANGED <<coreVars, newsVars, listVars, loopVars, regVars, appVars>>

-----------------------------------------------------------------------------
(* _validate_facility_conflicts and the generator it calls, pass by pass:   *)
(* one step for each pass of a while loop and for each stored event of the  *)
(* "for other_event in conflicting_events" loop                             *)

\* the date advancing only on the days that appended an occurrence
next_date_when_appended(current_date, appended) ==
    IF appended # <<>> THEN current_date + 1 ELSE current_date

\* "current_date += timedelta(days=1)" at the end of a pass
next_date(current_date, appended) == current_date + 1

\* pc: "call" (the generator is about to run for gen), "while" (inside one of
\* its loops), "return" (it returned occurrences), "for" (at the head of the
\* loop over the stored events), "done", "raised"
Loop(pc, self, stored, gen, current_date, end_limit, occurrences, my_occurrences, others, scanned) ==
    [pc |-> pc, self |-> self, stored |-> stored, gen |-> gen,
     current_date |-> current_date, end_limit |-> end_limit,
     occurrences |-> occurrences, my_occurrences |-> my_occurrences,
     others |-> others, scanned |-> scanned]

\* lines 497-510 / 541-544: the one-off branch returns at once, the others
\* set current_date and end_limit
GenEnter ==
    /\ loop.pc = "call"
    /\ IF loop.gen.recurrence_type = NONE
       THEN loop' = [loop EXCEPT !.pc = "return",
                                 !.occurrences =
                                     generate_occurrences_for_validation(loop.gen)]
       ELSE loop' = [loop EXCEPT !.pc = "while",
                                 !.occurrences = <<>>,
                                 !.current_date = date(loop.gen.start_datetime),
                                 !.end_limit = end_limit_of(loop.gen)]
    /\ UNCHANGED <<coreVars, newsVars, listVars, acctVars, regVars, appVars>>

\* one pass of "while current_date <= end_limit"
GenPass ==
    /\ loop.pc = "while"
    /\ loop.current_date <= loop.end_limit
    /\ LET appended == IF loop.gen.recurrence_times # <<>>
                       THEN times_step(loop.gen, loop.current_date)
                       ELSE base_step(loop.gen, loop.current_date)
       IN  loop' = [loop EXCEPT !.occurrences = @ \o appended,
                                !.current_date = next_date(@, appended)]
    /\ UNCHANGED <<coreVars, newsVars, listVars, acctVars, regVars, appVars>>

\* the loop condition fails: return occurrences
GenReturn ==
    /\ loop.pc = "while"
    /\ loop.current_date > loop.end_limit
    /\ loop' = [loop EXCEPT !.pc = "return"]
    /\ UNCHANGED <<coreVars, newsVars, listVars, acctVars, regVars, appVars>>

\* lines 444-463: my_occurrences is there, the queryset is built
ScanEnter ==
    /\ loop.pc = "return"
    /\ loop.gen = loop.self
    /\ loop' = [loop EXCEPT !.pc = "for",
                            !.my_occurrences = loop.occurrences,
                            !.others = conflicting_events(loop.self, loop.stored)]
    /\ UNCHANGED <<coreVars, newsVars, listVars, acctVars, regVars, appVars>>

\* "for other_event in conflicting_events": the next stored event, if any
ForNext ==
    /\ loop.pc = "for"
    /\ IF loop.others = <<>>
       THEN loop' = [loop EXCEPT !.pc = "done"]
       ELSE loop' = [loop EXCEPT !.pc = "call", !.gen = Head(loop.others)]
    /\ UNCHANGED <<coreVars, newsVars, listVars, acctVars, regVars, appVars>>

\* lines 470-478: the two for loops over the two finite lists
ComparePairs ==
    /\ loop.pc = "return"
    /\ loop.gen # loop.self
    /\ IF first_pair(loop.my_occurrences, loop.occurrences) # <<0, 0>>
       THEN loop' = [loop EXCEPT !.pc = "raised", !.scanned = @ + 1]
       ELSE loop' = [loop EXCEPT !.pc = "for", !.others = Tail(@),
                                 !.scanned = @ + 1]
    /\ UNCHANGED <<coreVars, newsVars, listVars, acctVars, regVars, appVars>>

-----------------------------------------------------------------------------
(* EventRegistration.save, confirm and cancel with the capacity properties  *)
(* of Event                                                                 *)

WAITLIST == "waitlist"

\* the fields of the event that the registrations read
RegEvent(capacity, auto_confirm_registration) ==
    [capacity |-> capacity, auto_confirm_registration |-> auto_confirm_registration]

\* Event.has_capacity_limit
has_capacity_limit(event) == event.capacity # None

\* Event.confirmed_registrations_count; registrations maps a user to the
\* status of the user's registration, "" when there is none
confirmed_registrations_count(registrations) ==
    Cardinality({u \in DOMAIN registrations : registrations[u] = CONFIRMED})

\* "not self.capacity": None and 0 are both falsy
no_capacity(event) == event.capacity = None \/ event.capacity = 0

\* Event.is_full
is_full(event, registrations) ==
    IF no_capacity(event) THEN FALSE
    ELSE confirmed_registrations_count(registrations) >= event.capacity

RegLast(op, user, raised, confirmed_before) ==
    [op |-> op, user |-> user, raised |-> raised, confirmed_before |-> confirmed_before]

InitRegLast == RegLast("none", None, FALSE, 0)

\* save() of a new registration (status pending by default); the table
\* holds one registration for an event and a user
RegSave(user) ==
    /\ regs[user] = ""
    /\ regs' = [regs EXCEPT ![user] =
                   IF reg_event.auto_confirm_registration
                   THEN IF ~is_full(reg_event, regs) THEN CONFIRMED ELSE WAITLIST
                   ELSE PENDING]
    /\ reg_last' = RegLast("save", user, FALSE, confirmed_registrations_count(regs))
    /\ UNCHANGED <<reg_event, coreVars, newsVars, listVars, acctVars, loopVars, appVars>>

\* EventRegistration.confirm
RegConfirm(user) ==
    /\ regs[user] # ""
    /\ IF is_full(reg_event, regs) /\ regs[user] # CONFIRMED
       THEN /\ reg_last' = RegLast("confirm", user, TRUE,
                                   confirmed_registrations_count(regs))
            /\ UNCHANGED regs
       ELSE /\ regs' = [regs EXCEPT ![user] = CONFIRMED]
            /\ reg_last' = RegLast("confirm", user, FALSE,
                                   confirmed_registrations_count(regs))
    /\ UNCHANGED <<reg_event, coreVars, newsVars, listVars, acctVars, loopVars, appVars>>

\* EventRegistration.cancel
RegCancel(user) ==
    /\ regs[user] # ""
    /\ regs' = [regs EXCEPT ![user] = CANCELLED]
    /\ reg_last' = RegLast("cancel", user, FALSE, confirmed_registrations_count(regs))
    /\ UNCHANGED <<reg_event, coreVars, newsVars, listVars, acctVars, loopVars, appVars>>

-----------------------------------------------------------------------------
(* Application.approve and Application.reject                               *)

APPROVED == "approved"
REJECTED == "rejected"

\* a membership application
Application(user, status, reviewed_by, reviewed_at, admin_note) ==
    [user |-> user, status |-> status, reviewed_by |-> reviewed_by,
     reviewed_at |-> reviewed_at, admin_note |-> admin_note]

\* getattr(reviewer, 'is_member', False): every member may review
reviewer_is_member(reviewer) ==
    IF reviewer = None THEN FALSE ELSE is_member(app_roles[reviewer])

\* getattr(reviewer, 'is_admin', False); reviewer is a user or None
reviewer_is_admin(reviewer) ==
    IF reviewer = None THEN FALSE ELSE is_admin(app_roles[reviewer])

AppLast(op, reviewer, pk, note, raised) ==
    [op |-> op, reviewer |-> reviewer, pk |-> pk, note |-> note, raised |-> raised]

InitAppLast == AppLast("none", None, None, "", FALSE)

\* Application.approve(reviewer) on the application pk
approve(reviewer, pk) ==
    /\ pk \in DOMAIN apps
    /\ IF ~reviewer_is_admin(reviewer)
       THEN /\ app_last' = AppLast("approve", reviewer, pk, "", TRUE)
            /\ UNCHANGED <<apps, app_roles>>
       ELSE /\ apps' = [apps EXCEPT ![pk].status = APPROVED,
                                    ![pk].reviewed_by = reviewer,
                                    ![pk].reviewed_at = now]
            /\ app_roles' = [app_roles EXCEPT ![apps[pk].user].role = MEMBER]
            /\ app_last' = AppLast("approve", reviewer, pk, "", FALSE)
    /\ UNCHANGED <<coreVars, newsVars, listVars, acctVars, loopVars, regVars>>

\* Application.reject(reviewer, note) on the application pk
reject(reviewer, pk, note) ==
    /\ pk \in DOMAIN apps
    /\ IF ~reviewer_is_admin(reviewer)
       THEN /\ app_last' = AppLast("reject", reviewer, pk, note, TRUE)
            /\ UNCHANGED <<apps, app_roles>>
       ELSE /\ apps' = [apps EXCEPT ![pk].status = REJECTED,
                                    ![pk].reviewed_by = reviewer,
                                    ![pk].reviewed_at = now,
                                    ![pk].admin_note = IF note # "" THEN note ELSE @]
            /\ app_last' = AppLast("reject", reviewer, pk, note, FALSE)
            /\ UNCHANGED app_roles
    /\ UNCHANGED <<coreVars, newsVars, listVars, acctVars, loopVars, regVars>>

-----------------------------------------------------------------------------
(* Specifications *)

NoEvent == Event(None, "", None, PENDING, 0, None, NONE, None, <<>>, <<>>)
NoOccurrence == Occurrence(None, <<>>, <<>>, None, None)

EventsIdle == events = {} /\ next_pk = 1 /\ last = InitLast
GenIdle == gen_ev = NoEvent /\ gen_out = <<>> /\ gen_pc = "idle"
OverlapIdle ==
    occ1 = NoOccurrence /\ occ2 = NoOccurrence /\ ov_out = FALSE /\ ov_pc = "idle"
PairIdle ==
    /\ evA = NoEvent /\ evB = NoEvent
    /\ resA = Passed(FALSE) /\ resB = Passed(FALSE) /\ pair_done = {}
BookingsIdle == bookings = {} /\ next_bpk = 1 /\ blast = InitBLast
RaceIdle == txs = <<>> /\ slugs = {}
ApiIdle == api_events = {} /\ api_next_pk = 1 /\ api_last = InitApiLast
NewsIdle == news = NoNews /\ now = 0 /\ news_last = InitNewsLast
ListIdle == news_table = {} /\ list_last = <<>>
AcctIdle == accounts = <<>> /\ acct_last = <<>>
LoopIdle == loop = <<>>
RegIdle == reg_event = <<>> /\ regs = <<>> /\ reg_last = <<>>
AppIdle == app_roles = <<>> /\ apps = <<>> /\ app_last = <<>>
MoreIdle == ListIdle /\ AcctIdle /\ LoopIdle /\ RegIdle /\ AppIdle

\* the events table
Init ==
    /\ EventsIdle /\ GenIdle /\ OverlapIdle /\ PairIdle /\ BookingsIdle
    /\ RaceIdle /\ ApiIdle /\ NewsIdle
    /\ MoreIdle

Next ==
    \/ \E input \in EventInputs : EventAdd(input)
    \/ \E row \in events, input \in EventInputs : EventChange(row, input)
    \/ \E row \in events : cancel(row)
    \/ \E row \in events : complete(row)

Spec == Init /\ [][Next]_vars

\* the occurrence generator on one event
\* latest start day and longest recurrence range of the events generated from
MaxStartDay == 1
MaxRange == 9
\* a recurrence end date that lies more than a year after the start
FarEnd == 400

TimeTables ==
    { <<>>,
      << [day |-> 2, start_time |-> <<18, 0>>, end_time |-> <<20, 0>>] >>,
      << [day |-> 0, start_time |-> <<10, 0>>, end_time |-> <<12, 0>>],
         [day |-> 0, start_time |-> <<15, 30>>, end_time |-> NoTime],
         [day |-> 3, start_time |-> NoTime, end_time |-> <<9, 0>>] >> }

\* events the generator is called on: they have a facility and an end after
\* the start (clean() or the table's constraints checked it)
GenEvents ==
    { Event(1, "Taller", 1, PENDING, combine(d, clock(18, 0)), combine(d + w, clock(20, 0)),
            rt, IF re = None THEN None ELSE d + re, dow, tt) :
        d \in 0..MaxStartDay, w \in {0, 1}, rt \in RecurrenceType,
        re \in {None, 0, MaxRange, FarEnd}, dow \in {<<>>, <<0>>, <<1, 3>>},
        tt \in TimeTables }

\* events without an end (and so without a facility), on which the method
\* is called directly
GenEventsNoEnd ==
    { Event(1, "Paseo", None, PENDING, combine(d, clock(18, 0)), None, rt,
            IF re = None THEN None ELSE d + re, <<>>, tt) :
        d \in 0..MaxStartDay, rt \in RecurrenceType, re \in {None, 0},
        tt \in TimeTables }

GenInit ==
    /\ gen_ev \in GenEvents \cup GenEventsNoEnd /\ gen_out = <<>> /\ gen_pc = "ready"
    /\ EventsIdle /\ OverlapIdle /\ PairIdle /\ BookingsIdle
    /\ RaceIdle /\ ApiIdle /\ NewsIdle
    /\ MoreIdle

Generate ==
    /\ gen_pc = "ready"
    /\ IF raises_attribute_error(gen_ev)
       THEN gen_out' = <<>> /\ gen_pc' = "raised"
       ELSE /\ gen_out' = generate_occurrences_for_validation(gen_ev)
            /\ gen_pc' = "done"
    /\ UNCHANGED <<gen_ev, eventVars, overlapVars, pairVars, bookingVars,
                   raceVars, apiVars, newsVars,
                   moreVars>>

GenNext == Generate

SpecGen == GenInit /\ [][GenNext]_vars

\* _check_overlap on two occurrences
Occurrences ==
    { Occurrence(d, strftime(clock(w[1], 0)), strftime(clock(w[2], 0)),
                 At(d, w[1]), At(d, w[2])) :
        d \in {Monday, Monday + 1},
        w \in {<<18, 19>>, <<18, 20>>, <<18, 21>>, <<19, 20>>, <<19, 21>>, <<20, 21>>} }
    \cup { Occurrence(Monday, <<18, 0>>, <<19, 0>>, At(Monday, 18), At(Monday + 1, 19)) }

OverlapInit ==
    /\ occ1 \in Occurrences /\ occ2 \in Occurrences
    /\ ov_out = FALSE /\ ov_pc = "ready"
    /\ EventsIdle /\ GenIdle /\ PairIdle /\ BookingsIdle
    /\ RaceIdle /\ ApiIdle /\ NewsIdle
    /\ MoreIdle

CheckOverlap ==
    /\ ov_pc = "ready"
    /\ ov_out' = check_overlap(occ1, occ2)
    /\ ov_pc' = "done"
    /\ UNCHANGED <<occ1, occ2, eventVars, genVars, pairVars, bookingVars,
                   raceVars, apiVars, newsVars,
                   moreVars>>

OverlapNext == CheckOverlap

SpecOverlap == OverlapInit /\ [][OverlapNext]_vars

\* two events, each validated by clean() while the other one is stored
PairInputs ==
    EventInputs
    \cup { Event(None, "Taller", 1, PENDING, At(d, 18), At(d, 20), WEEKLY, None, dow, <<>>) :
             d \in {0, Monday}, dow \in {<<>>, <<0>>} }
    \cup { Input(1, st, At(Monday, 18), At(Monday, 20), NONE, None) :
             st \in {CANCELLED, COMPLETED} }
    \cup { Input(2, PENDING, At(Monday, 19), At(Monday, 21), NONE, None),
           Input(1, PENDING, At(Monday + 1, 19), At(Monday + 1, 21), NONE, None),
           Input(1, PENDING, At(52 * Monday, 19), At(52 * Monday, 21), NONE, None),
           Input(1, PENDING, At(2 * Monday, 18), At(2 * Monday, 20), DAILY, None) }

PairInit ==
    /\ evA \in {with_pk(e, 1) : e \in PairInputs}
    /\ evB \in {with_pk(e, 2) : e \in PairInputs}
    /\ resA = Passed(FALSE) /\ resB = Passed(FALSE) /\ pair_done = {}
    /\ EventsIdle /\ GenIdle /\ OverlapIdle /\ BookingsIdle
    /\ RaceIdle /\ ApiIdle /\ NewsIdle
    /\ MoreIdle

\* what pair_done holds after one more validation of the event named by who
Validated(who) ==
    IF who \in pair_done THEN pair_done \cup {who \o " again"}
    ELSE pair_done \cup {who}

\* clean() of evA that also keeps the end of its search range in the event
ValidateA_keeps_search_end ==
    /\ Storable(evB)
    /\ resA' = clean(evA, {evB})
    /\ evA' = [evA EXCEPT !.recurrence_end_date = search_end_of(evA)]
    /\ pair_done' = Validated("A")
    /\ UNCHANGED <<evB, resB, eventVars, genVars, overlapVars, bookingVars,
                   raceVars, apiVars, newsVars,
                   moreVars>>

\* clean() of evA while the table holds evB, which the table can hold; it can
\* be called again on the same data
ValidateA ==
    /\ Storable(evB)
    /\ resA' = clean(evA, {evB})
    /\ pair_done' = Validated("A")
    /\ UNCHANGED <<evA, evB, resB, eventVars, genVars, overlapVars, bookingVars,
                   raceVars, apiVars, newsVars,
                   moreVars>>

ValidateB ==
    /\ Storable(evA)
    /\ resB' = clean(evB, {evA})
    /\ pair_done' = Validated("B")
    /\ UNCHANGED <<evA, evB, resA, eventVars, genVars, overlapVars, bookingVars,
                   raceVars, apiVars, newsVars,
                   moreVars>>

PairNext == ValidateA \/ ValidateB

SpecPair == PairInit /\ [][PairNext]_vars

\* the bookings table
BookingInit ==
    /\ EventsIdle /\ GenIdle /\ OverlapIdle /\ PairIdle /\ BookingsIdle
    /\ RaceIdle /\ ApiIdle /\ NewsIdle
    /\ MoreIdle

BookingNext ==
    \/ \E input \in BookingInputs : BookingAdd(input)
    \/ \E row \in bookings, input \in BookingInputs : BookingChange(row, input)
    \/ \E row \in bookings : booking_cancel(row)

SpecBooking == BookingInit /\ [][BookingNext]_vars

\* two concurrent transactions on an empty table
RaceCandidates ==
    { <<Event(None, "Reunion", 1, PENDING, At(Monday, 18), At(Monday, 20), NONE, None, <<>>, <<>>), "">>,
      <<Event(None, "Asamblea", 1, PENDING, At(Monday, 19), At(Monday, 21), NONE, None, <<>>, <<>>), "">>,
      <<Event(None, "Reunion", 1, SCHEDULED, At(Monday, 19), At(Monday, 21), NONE, None, <<>>, <<>>), "">>,
      <<Event(None, "Reunion", 1, SCHEDULED, At(Monday, 19), At(Monday, 21), NONE, None, <<>>, <<>>), "reunion-2">>,
      <<Event(None, "Asamblea", 2, PENDING, At(Monday, 19), At(Monday, 21), NONE, None, <<>>, <<>>), "asamblea">>,
      <<Event(None, "Asamblea", 1, PENDING, At(Monday, 20), At(Monday, 21), NONE, None, <<>>, <<>>), "">>,
      <<Event(None, "Taller", 1, PENDING, At(0, 18), At(0, 20), WEEKLY, None, <<>>, <<>>), "">>,
      <<Event(None, "Taller", 1, CANCELLED, At(Monday, 18), At(Monday, 20), NONE, None, <<>>, <<>>), "">>,
      <<Event(None, "Taller", 1, PENDING, At(Monday, 19), At(Monday, 18), NONE, None, <<>>, <<>>), "">> }

RaceInit ==
    /\ txs \in { <<Tx(c1[1], c1[2]), Tx(c2[1], c2[2])>> : c1 \in RaceCandidates, c2 \in RaceCandidates }
    /\ slugs = {}
    /\ EventsIdle /\ GenIdle /\ OverlapIdle /\ PairIdle /\ BookingsIdle
    /\ ApiIdle /\ NewsIdle
    /\ MoreIdle

RaceNext ==
    \/ \E t \in {1, 2} : TxValidate(t)
    \/ \E t \in {1, 2} : TxCommit(t)

SpecRace == RaceInit /\ [][RaceNext]_vars

\* the events API: the users that send requests, and a table that holds
\* nothing or one event stored for the registered user
Users ==
    { User(1, REGISTERED, FALSE, 1),
      User(2, MEMBER, FALSE, 1),
      User(3, ADMIN, FALSE, 1),
      User(4, REGISTERED, TRUE, 1),
      User(5, ADMIN, FALSE, 2) }

Requesters == Users \cup {AnonymousUser}

ApiInit ==
    /\ \/ api_events = {} /\ api_next_pk = 1
       \/ /\ api_events = {ApiEvent(1, 1, 1, PENDING)}
          /\ api_next_pk = 2
    /\ api_last = InitApiLast
    /\ EventsIdle /\ GenIdle /\ OverlapIdle /\ PairIdle /\ BookingsIdle
    /\ RaceIdle /\ NewsIdle
    /\ MoreIdle

ApiNext ==
    \/ \E user \in Requesters, valid \in BOOLEAN : ApiCreate(user, valid)
    \/ \E user \in Requesters, pk \in 1..MaxApiEvents, valid \in BOOLEAN :
          ApiUpdate(user, pk, valid)
    \/ \E user \in Requesters, pk \in 1..MaxApiEvents : ApiCancel(user, pk)
    \/ \E user \in Requesters, pk \in 1..MaxApiEvents : ApiComplete(user, pk)
    \/ \E user \in Requesters, pk \in 1..MaxApiEvents : ApiDestroy(user, pk)
    \/ \E user \in Requesters, pk \in 1..MaxApiEvents : ApiRetrieve(user, pk)

SpecApi == ApiInit /\ [][ApiNext]_vars

\* a news item of tenant 1 written by a member, created as a draft
NewsInit ==
    /\ news = News(DRAFT, 2, 1, None, None, None, None)
    /\ now = 0
    /\ news_last = InitNewsLast
    /\ EventsIdle /\ GenIdle /\ OverlapIdle /\ PairIdle /\ BookingsIdle
    /\ RaceIdle /\ ApiIdle
    /\ MoreIdle

NewsNext ==
    \/ Tick
    \/ \E user \in Requesters : publish(user)
    \/ \E user \in Requesters : archive(user)
    \/ \E user \in Requesters : draft(user)

SpecNews == NewsInit /\ [][NewsNext]_vars

\* the stored news: a published, a draft and an archived item of tenant 1 and
\* a draft of tenant 2
NewsItems ==
    { NewsItem(1, PUBLISHED, 2, 1, 1, 1, <<"a">>, <<"c">>),
      NewsItem(2, DRAFT, 2, 1, 1, None, <<"a", "b">>, <<"c">>),
      NewsItem(3, ARCHIVED, 3, 1, 2, 0, <<"b">>, <<"a", "c">>),
      NewsItem(4, DRAFT, 5, 2, 1, None, <<"a">>, <<"c">>) }

ListParams ==
    { QueryParams(s, c, a, f, t, q) :
        s \in {"", DRAFT, PUBLISHED, ARCHIVED}, c \in {None, 1}, a \in {None, 2},
        f \in {None, 1}, t \in {None, 0}, q \in {<<>>, <<"a">>} }

ListInit ==
    /\ news_table \in SUBSET NewsItems
    /\ list_last = InitListLast
    /\ EventsIdle /\ GenIdle /\ OverlapIdle /\ PairIdle /\ BookingsIdle
    /\ RaceIdle /\ ApiIdle /\ NewsIdle
    /\ AcctIdle /\ LoopIdle /\ RegIdle /\ AppIdle

ListNext ==
    \E user \in Requesters, query_params \in ListParams : list(user, query_params)

SpecList == ListInit /\ [][ListNext]_vars

\* the table holds the superuser made by create_superuser (role admin); the
\* other users come through the create endpoint
PayloadRoles == {"", REGISTERED, MEMBER, ADMIN, "root"}

Payloads == {Payload(name, role) : name \in {"ana", "eva"}, role \in PayloadRoles}

AcctInit ==
    /\ accounts = <<Account("ana", ADMIN, TRUE)>>
    /\ acct_last = InitAcctLast
    /\ EventsIdle /\ GenIdle /\ OverlapIdle /\ PairIdle /\ BookingsIdle
    /\ RaceIdle /\ ApiIdle /\ NewsIdle
    /\ ListIdle /\ LoopIdle /\ RegIdle /\ AppIdle

AcctNext ==
    \/ \E payload \in Payloads, valid \in BOOLEAN : CreateUser(payload, valid)
    \/ \E user \in DOMAIN accounts \cup {None}, payload \in Payloads, valid \in BOOLEAN :
          ManageUser(user, payload, valid)
    \/ \E user \in DOMAIN accounts \cup {None}, pk \in 1..MaxUsers, role \in PayloadRoles :
          RoleUpdate(user, pk, role)

SpecUsers == AcctInit /\ [][AcctNext]_vars

\* the events under validation: a one-off event, recurring events with and
\* without a recurrence end date, with and without a time table
LoopEvents ==
    { Input(1, PENDING, At(Monday, 18), At(Monday, 20), NONE, None),
      Input(1, PENDING, At(Monday, 18), At(Monday, 20), DAILY, Monday + MaxRange),
      Input(1, PENDING, At(0, 8), At(0, 9), WEEKLY, None),
      Event(None, "Taller", 1, PENDING, At(0, 18), At(0, 20), WEEKLY, MaxRange,
            <<>>, << [day |-> 2, start_time |-> <<18, 0>>, end_time |-> <<20, 0>>] >>),
      Event(None, "Taller", 1, PENDING, At(0, 18), At(0, 20), MONTHLY, MaxRange,
            <<>>, << [day |-> 2, start_time |-> <<18, 0>>, end_time |-> <<20, 0>>] >>),
      Event(None, "Taller", 1, PENDING, At(Monday, 18), At(Monday, 20), WEEKLY,
            2 * Monday + MaxRange, <<1, 3>>, <<>>) }

\* the stored events: a weekly one without an end date and a one-off one
LoopStored ==
    { with_pk(Event(None, "Feria", 1, SCHEDULED, At(1, 10), At(1, 12), WEEKLY, None,
                    <<>>, <<>>), 1),
      with_pk(Input(1, PENDING, At(Monday + 2, 19), At(Monday + 2, 21), NONE, None), 2) }

LoopInit ==
    /\ \E self \in LoopEvents, stored \in SUBSET LoopStored :
          loop = Loop("call", self, stored, self, None, None, <<>>, <<>>, <<>>, 0)
    /\ EventsIdle /\ GenIdle /\ OverlapIdle /\ PairIdle /\ BookingsIdle
    /\ RaceIdle /\ ApiIdle /\ NewsIdle
    /\ ListIdle /\ AcctIdle /\ RegIdle /\ AppIdle

LoopNext ==
    \/ GenEnter
    \/ GenPass
    \/ GenReturn
    \/ ScanEnter
    \/ ForNext
    \/ ComparePairs

SpecLoop == LoopInit /\ [][LoopNext]_vars

\* the interpreter keeps running the call: a pass that can be taken is taken
SpecLoopFair == SpecLoop /\ WF_vars(LoopNext)

\* the events table and the bookings table together: rows are added and
\* changed, each after its clean()
SelfEventInputs ==
    { Input(1, PENDING, At(Monday, 18), At(Monday, 20), NONE, None),
      Input(1, SCHEDULED, At(Monday, 19), At(Monday, 21), WEEKLY, Monday + MaxRange),
      Input(1, PENDING, At(Monday + 1, 18), At(Monday + 1, 20), DAILY, Monday + 3) }

SelfBookingInputs ==
    { Booking(None, 1, CONFIRMED, At(Monday, 18), At(Monday, 20)),
      Booking(None, 1, PENDING, At(Monday, 19), At(Monday, 21)),
      Booking(None, 1, PENDING, At(Monday, 20), At(Monday, 21)) }

SelfNext ==
    \/ \E input \in SelfEventInputs : EventAdd(input)
    \/ \E row \in events, input \in SelfEventInputs : EventChange(row, input)
    \/ \E input \in SelfBookingInputs : BookingAdd(input)
    \/ \E row \in bookings, input \in SelfBookingInputs : BookingChange(row, input)

SpecSelf == Init /\ [][SelfNext]_vars

\* the users who may register
MaxRegUsers == 3

\* an event without a capacity, with capacity 0, 1 and 2, with and without
\* automatic confirmation; nobody has registered
RegInit ==
    /\ reg_event \in {RegEvent(c, a) : c \in {None, 0, 1, 2}, a \in BOOLEAN}
    /\ regs = [u \in 1..MaxRegUsers |-> ""]
    /\ reg_last = InitRegLast
    /\ EventsIdle /\ GenIdle /\ OverlapIdle /\ PairIdle /\ BookingsIdle
    /\ RaceIdle /\ ApiIdle /\ NewsIdle
    /\ ListIdle /\ AcctIdle /\ LoopIdle /\ AppIdle

RegNext ==
    \/ \E user \in 1..MaxRegUsers : RegSave(user)
    \/ \E user \in 1..MaxRegUsers : RegConfirm(user)
    \/ \E user \in 1..MaxRegUsers : RegCancel(user)

SpecReg == RegInit /\ [][RegNext]_vars

\* the users: a registered user, a member, an administrator and a superuser
AppUsers ==
    << Account("ana", REGISTERED, FALSE), Account("eva", MEMBER, FALSE),
       Account("ines", ADMIN, FALSE), Account("luz", ADMIN, TRUE) >>

\* pending applications of the registered user and of the administrator (who
\* applied before being given the admin role), the first with a note already
AppInit ==
    /\ app_roles = AppUsers
    /\ apps = << Application(1, PENDING, None, None, "ver"),
                 Application(3, PENDING, None, None, "") >>
    /\ app_last = InitAppLast
    /\ EventsIdle /\ GenIdle /\ OverlapIdle /\ PairIdle /\ BookingsIdle
    /\ RaceIdle /\ ApiIdle /\ NewsIdle
    /\ ListIdle /\ AcctIdle /\ LoopIdle /\ RegIdle

AppNext ==
    \/ \E reviewer \in DOMAIN app_roles \cup {None}, pk \in DOMAIN apps :
          approve(reviewer, pk)
    \/ \E reviewer \in DOMAIN app_roles \cup {None}, pk \in DOMAIN apps,
          note \in {"", "falta"} : reject(reviewer, pk, note)

SpecApp == AppInit /\ [][AppNext]_vars

-----------------------------------------------------------------------------
(* Properties *)

Active(e) == e.status \in {PENDING, SCHEDULED}

WindowsIntersect(o1, o2) ==
    o1.start_datetime < o2.end_datetime /\ o1.end_datetime > o2.start_datetime

\* some occurrence of a and some occurrence of b occupy intersecting windows
OccupySameWindow(a, b) ==
    LET oa == generate_occurrences_for_validation(a)
        ob == generate_occurrences_for_validation(b)
    IN  \E i \in 1..Len(oa), j \in 1..Len(ob) : WindowsIntersect(oa[i], ob[j])

\* C1: when every added or changed event passed clean() before it was stored,
\* no facility holds two distinct pending or scheduled events whose
\* occurrences occupy intersecting date/time windows.
C1_NoDoubleBooking ==
    \A a, b \in events :
        (a.pk # b.pk /\ Active(a) /\ Active(b)
         /\ a.facility # None /\ a.facility = b.facility)
        => ~OccupySameWindow(a, b)

\* C2: for two pending or scheduled events A and B at one facility, clean()
\* of A with B stored reports a conflict exactly when clean() of B with A
\* stored does.
C2_Symmetric ==
    ({"A", "B"} \subseteq pair_done /\ Active(evA) /\ Active(evB)
     /\ evA.facility # None /\ evA.facility = evB.facility)
    => ((resA.kind = "conflict") <=> (resB.kind = "conflict"))

\* C3: _check_overlap returns true exactly when the two occurrences have the
\* same date and start_A < end_B and end_A > start_B; on different dates it
\* returns false, and so it does when they only touch.
C3_OverlapRule ==
    ov_pc = "done" =>
        /\ ov_out <=> (/\ occ1.date = occ2.date
                       /\ occ1.start_datetime < occ2.end_datetime
                       /\ occ1.end_datetime > occ2.start_datetime)
        /\ occ1.date # occ2.date => ~ov_out
        /\ occ1.end_datetime = occ2.start_datetime => ~ov_out

\* two occurrences of one date that only touch were compared and do not overlap
C3_TouchingCompared ==
    /\ ov_pc = "done"
    /\ occ1.date = occ2.date
    /\ occ1.end_datetime = occ2.start_datetime
    /\ ~ov_out

\* C4: for a NONE event the generator returns exactly one occurrence, with
\* the date of the event's start and the event's own start and end datetimes.
C4_NoneSingleOccurrence ==
    (gen_pc = "done" /\ gen_ev.recurrence_type = NONE) =>
        /\ Len(gen_out) = 1
        /\ gen_out[1].date = date(gen_ev.start_datetime)
        /\ gen_out[1].start_datetime = gen_ev.start_datetime
        /\ gen_out[1].end_datetime = gen_ev.end_datetime

\* a one-off event that ends on the day after its start went through the generator
C4_SeveralDaysGenerated ==
    /\ gen_pc = "done"
    /\ gen_ev.recurrence_type = NONE
    /\ date(gen_ev.end_datetime) > date(gen_ev.start_datetime)
    /\ Len(gen_out) = 1

\* the last day of the range of a recurring event: its recurrence end date,
\* or 365 days after its start date
RangeEnd(e) ==
    IF e.recurrence_end_date # None THEN e.recurrence_end_date
    ELSE date(e.start_datetime) + 365

\* C5: for a WEEKLY event with no day set (no recurrence_days_of_week, no
\* recurrence_times) the occurrences fall only on the weekday of the start
\* date, one for every such day from the start date to the end of the range.
C5_WeeklyStartWeekday ==
    (/\ gen_pc = "done"
     /\ gen_ev.recurrence_type = WEEKLY
     /\ gen_ev.recurrence_days_of_week = <<>>
     /\ gen_ev.recurrence_times = <<>>) =>
        LET first == date(gen_ev.start_datetime)
            days == {d \in first..RangeEnd(gen_ev) : weekday(d) = weekday(first)}
        IN  /\ \A i \in 1..Len(gen_out) : gen_out[i].date \in days
            /\ \A d \in days :
                 Cardinality({i \in 1..Len(gen_out) : gen_out[i].date = d}) = 1

\* a weekly event without end date gave the 53 occurrences of a 365-day range
C5_WeeklyYearGenerated ==
    /\ gen_pc = "done"
    /\ gen_ev.recurrence_type = WEEKLY
    /\ gen_ev.recurrence_days_of_week = <<>>
    /\ gen_ev.recurrence_times = <<>>
    /\ gen_ev.recurrence_end_date = None
    /\ Len(gen_out) = 53

\* C6 as stated: for a DAILY event with a recurrence end date the number of
\* occurrences is the number of days from the start date to the end date,
\* both included.
C6_DailyCountAnyEvent ==
    (/\ gen_pc = "done"
     /\ gen_ev.recurrence_type = DAILY
     /\ gen_ev.recurrence_end_date # None) =>
        Len(gen_out) = Cardinality(date(gen_ev.start_datetime)..gen_ev.recurrence_end_date)

\* C6 amended: for a DAILY event without recurrence_times and with a
\* recurrence end date the number of occurrences is the number of days from
\* the start date to the end date, both included.
C6_DailyCount ==
    (/\ gen_pc = "done"
     /\ gen_ev.recurrence_type = DAILY
     /\ gen_ev.recurrence_times = <<>>
     /\ gen_ev.recurrence_end_date # None) =>
        Len(gen_out) = Cardinality(date(gen_ev.start_datetime)..gen_ev.recurrence_end_date)

\* a daily event whose range has several days went through the generator
C6_DailyRangeGenerated ==
    /\ gen_pc = "done"
    /\ gen_ev.recurrence_type = DAILY
    /\ gen_ev.recurrence_times = <<>>
    /\ gen_ev.recurrence_end_date # None
    /\ gen_ev.recurrence_end_date > date(gen_ev.start_datetime)
    /\ Len(gen_out) > 1

\* event A of the scenario: weekly on Mondays, 18:00-20:00, at a facility,
\* without recurrence end date, pending or scheduled
WeeklyMondayEvening(a) ==
    /\ a.recurrence_type = WEEKLY
    /\ a.recurrence_end_date = None
    /\ a.recurrence_times = <<>>
    /\ a.recurrence_days_of_week \in {<<>>, <<0>>}
    /\ weekday(date(a.start_datetime)) = 0
    /\ a.start_datetime = At(date(a.start_datetime), 18)
    /\ a.end_datetime = At(date(a.start_datetime), 20)
    /\ a.facility # None
    /\ Active(a)

\* a one-off event from h1:00 to h2:00 on a Monday within a's range, at a's facility
OneOffOnMonday(b, a, h1, h2) ==
    /\ b.recurrence_type = NONE
    /\ b.recurrence_end_date = None
    /\ b.facility = a.facility
    /\ Active(b)
    /\ weekday(date(b.start_datetime)) = 0
    /\ date(b.start_datetime) >= date(a.start_datetime)
    /\ date(b.start_datetime) <= date(a.start_datetime) + 365
    /\ b.start_datetime = At(date(b.start_datetime), h1)
    /\ b.end_datetime = At(date(b.start_datetime), h2)

C8_EndRules ==
    /\ \A e \in events :
         /\ e.facility # None => e.end_datetime # None
         /\ e.end_datetime # None => e.end_datetime > e.start_datetime
    /\ (last.op \in {"add", "change"} /\ last.lacks_end) => last.kind = "required"
    /\ (last.op \in {"add", "change"} /\ ~last.lacks_end /\ last.end_not_after)
         => last.kind = "not_after_start"

\* an event with a facility and no end was refused while an event with a
\* facility is stored
C8_MissingEndRefused ==
    /\ last.op \in {"add", "change"}
    /\ last.lacks_end
    /\ last.kind = "required"
    /\ \E e \in events : e.facility # None

\* clean() of ev with other stored reported a conflict only between two
\* pending or scheduled events of one facility
ConflictOnlyAmongActive(ev, res, other) ==
    res.kind = "conflict" =>
        /\ ev.facility # None
        /\ Active(ev)
        /\ res.other_pk = other.pk
        /\ Active(other)
        /\ other.facility = ev.facility

\* C9: clean() of an event without facility, or cancelled or completed, never
\* fails with a conflict, and a cancelled or completed stored event is never
\* the one reported.
C9_OnlyActiveWithFacility ==
    /\ "A" \in pair_done => ConflictOnlyAmongActive(evA, resA, evB)
    /\ "B" \in pair_done => ConflictOnlyAmongActive(evB, resB, evA)

\* a pending event was validated, without conflict, against a stored
\* cancelled event of the same facility and the same hours
C9_CancelledIgnored ==
    /\ "A" \in pair_done
    /\ Active(evA)
    /\ evB.status = CANCELLED
    /\ evA.facility # None /\ evA.facility = evB.facility
    /\ evA.recurrence_type = NONE /\ evB.recurrence_type = NONE
    /\ evA.start_datetime = evB.start_datetime
    /\ evA.end_datetime = evB.end_datetime
    /\ resA.kind = "ok" /\ resA.validated

\* C10: Booking.clean() of a booking with end_at <= start_at fails with the
\* end error before the overlap query runs, whatever the stored bookings and
\* the booking's status; no such booking is stored.
C10_EndBeforeOverlap ==
    /\ (blast.op \in {"add", "change"} /\ blast.end_not_after)
         => (blast.kind = "not_after_start" /\ ~blast.queried)
    /\ \A b \in bookings : b.end_at > b.start_at

\* a cancelled booking with end_at <= start_at was refused while bookings
\* are stored
C10_CancelledRefused ==
    /\ blast.op \in {"add", "change"}
    /\ blast.end_not_after
    /\ blast.status = CANCELLED
    /\ blast.kind = "not_after_start"
    /\ bookings # {}

\* C11: Booking.clean() of a booking that is not cancelled and has end_at >
\* start_at fails exactly when the table holds another booking (other primary
\* key) of the same facility, confirmed or pending, with other.start_at <
\* end_at and other.end_at > start_at; a booking that only touches another
\* one is accepted.
C11_BookingOverlapRule ==
    [][ (/\ blast'.op \in {"add", "change"}
         /\ blast'.self.status # CANCELLED
         /\ blast'.self.end_at > blast'.self.start_at)
        => LET self == blast'.self
               taken == \E other \in bookings :
                           /\ other.pk # self.pk
                           /\ other.facility = self.facility
                           /\ other.status \in {CONFIRMED, PENDING}
                           /\ other.start_at < self.end_at
                           /\ other.end_at > self.start_at
           IN  /\ (blast'.kind # "ok") <=> taken
               /\ taken => blast'.kind = "overlap" ]_vars

\* a booking starting when a stored confirmed booking of its facility ends
\* was accepted
C11_TouchingAccepted ==
    /\ blast.op \in {"add", "change"}
    /\ blast.self.status # CANCELLED
    /\ blast.kind = "ok"
    /\ \E other \in bookings :
         /\ other.pk # blast.self.pk
         /\ other.facility = blast.self.facility
         /\ other.status = CONFIRMED
         /\ other.end_at = blast.self.start_at

\* clean() of ev gave res: when ev has a facility and lacks an end, or has an
\* end not after its start, res is the end_datetime error, raised before
\* occurrences were generated and other events read
StructuralFirst(ev, res) ==
    (\/ (ev.facility # None /\ ev.end_datetime = None)
     \/ (ev.end_datetime # None /\ ev.end_datetime <= ev.start_datetime))
    => /\ res.kind = (IF ev.end_datetime = None THEN "required" ELSE "not_after_start")
       /\ res.field = "end_datetime"
       /\ ~res.validated

\* C12: clean() of an event with a facility that has no end_datetime, or an
\* end_datetime <= start_datetime, fails with the structural error before any
\* occurrence is generated and before any other event is read.
C12_StructuralBeforeExpansion ==
    /\ "A" \in pair_done => StructuralFirst(evA, resA)
    /\ "B" \in pair_done => StructuralFirst(evB, resB)

\* an event whose end is before its start was refused while an active event
\* of its facility is stored on the same day
C12_EndBeforeStartRefused ==
    /\ "A" \in pair_done
    /\ evA.facility # None /\ Active(evA)
    /\ evA.end_datetime # None /\ evA.end_datetime < evA.start_datetime
    /\ evB.facility = evA.facility /\ Active(evB)
    /\ date(evB.start_datetime) = date(evA.start_datetime)
    /\ resA.kind = "not_after_start"

\* clean() of ev with other stored ran the conflict validation and gave res:
\* res is the error for the first overlapping pair of occurrences, in the
\* order "for my_occ: for other_occ", naming other's title and the date and
\* window of the other occurrence, or res is a pass when no pair overlaps
FirstPairReported(ev, res, other) ==
    res.validated =>
        LET mine == generate_occurrences_for_validation(ev)
            theirs == IF in_conflicting_events(ev, other)
                      THEN generate_occurrences_for_validation(other)
                      ELSE <<>>
            pairs == {p \in (1..Len(mine)) \X (1..Len(theirs)) :
                         check_overlap(mine[p[1]], theirs[p[2]])}
            Before(p, q) == p[1] < q[1] \/ (p[1] = q[1] /\ p[2] <= q[2])
        IN  IF pairs = {} THEN res.kind = "ok"
            ELSE /\ res.kind = "conflict"
                 /\ res.field = "facility"
                 /\ res.other_title = other.title
                 /\ \E p \in pairs :
                      /\ \A q \in pairs : Before(p, q)
                      /\ res.date = theirs[p[2]].date
                      /\ res.other_start_time = theirs[p[2]].start_time
                      /\ res.other_end_time = theirs[p[2]].end_time
                      /\ res.my_start_time = mine[p[1]].start_time
                      /\ res.my_end_time = mine[p[1]].end_time

\* C13: the conflict validation stops at the first overlapping pair of
\* occurrences and fails with an error naming the conflicting event's title
\* and the date and start-end window of the overlapping occurrence; when no
\* pair overlaps it passes.
C13_FirstConflictReported ==
    /\ "A" \in pair_done => FirstPairReported(evA, resA, evB)
    /\ "B" \in pair_done => FirstPairReported(evB, resB, evA)

\* a weekly event was validated against a stored daily event that starts a
\* week later: of the many overlapping pairs the first one was reported
C13_FirstOfManyReported ==
    /\ "A" \in pair_done
    /\ evA.recurrence_type = WEEKLY /\ evB.recurrence_type = DAILY
    /\ evB.recurrence_end_date = None
    /\ date(evB.start_datetime) > date(evA.start_datetime)
    /\ resA.kind = "conflict"
    /\ resA.date = date(evB.start_datetime)
    /\ resA.other_title = evB.title

MutuallyConflicting(a, b) ==
    /\ clean(a, {with_pk(b, 1)}).kind = "conflict"
    /\ clean(b, {with_pk(a, 1)}).kind = "conflict"

\* C15: when two mutually conflicting events of one facility are validated
\* concurrently in different transactions before either commits, the table
\* does not end up holding both as pending or scheduled events.
C15_RaceResolved ==
    ~(/\ txs # <<>>
      /\ txs[1].pc = "committed" /\ txs[2].pc = "committed"
      /\ MutuallyConflicting(txs[1].self, txs[2].self)
      /\ \E a, b \in events :
           /\ a.pk # b.pk /\ Active(a) /\ Active(b)
           /\ a.facility = b.facility
           /\ a = with_pk(txs[1].self, a.pk) /\ b = with_pk(txs[2].self, b.pk))

\* C19: in the events API a create succeeds only for an authenticated user
\* with member access (role member or admin, or superuser), a modification
\* or a delete of an existing event succeeds only for its author or an admin
\* (role admin, or superuser), and a rejected delete leaves the event stored.
C19_WritePermissions ==
    [][ LET r == api_last'
            AdminAccess == r.user.role = ADMIN \/ r.user.is_superuser
        IN  /\ (r.op = "create" /\ r.code = 201)
                 => /\ r.user.is_authenticated
                    /\ (r.user.role \in {MEMBER, ADMIN} \/ r.user.is_superuser)
            /\ (r.op \in {"update", "cancel", "complete", "destroy"}
                 /\ r.code \in {200, 204})
                 => \E e \in api_events :
                      e.pk = r.pk /\ (e.user = r.user.id \/ AdminAccess)
            /\ (r.op = "destroy" /\ r.code # 204) => api_events' = api_events
      ]_vars

\* a member's delete of another user's event was refused and the event is
\* still stored
C19_ForeignDeleteRefused ==
    /\ api_last.op = "destroy"
    /\ api_last.code = 403
    /\ api_last.user.role = MEMBER
    /\ \E e \in api_events : e.pk = api_last.pk /\ e.user # api_last.user.id

\* the status each news action asks for
RequestedStatus(op) ==
    CASE op = "publish" -> PUBLISHED
      [] op = "archive" -> ARCHIVED
      [] op = "draft" -> DRAFT

\* C20: in a step that is a request let through to the item, publish, archive and
\* draft set the status to published, archived and draft from either of the
\* other two statuses, publish recording published_at and published_by (the
\* requester) and archive recording archived_at and archived_by; a request
\* for the status the item already has returns an error and leaves the item
\* unchanged.
C20_NewsStatusActions ==
    [][ LET r == news_last'
        IN  (now' = now /\ r.op \in {"publish", "archive", "draft"} /\ r.code \in {200, 400})
            => IF news.status # RequestedStatus(r.op)
               THEN /\ r.code = 200
                    /\ news'.status = RequestedStatus(r.op)
                    /\ r.op = "publish" =>
                         (news'.published_at = now /\ news'.published_by = r.user.id)
                    /\ r.op = "archive" =>
                         (news'.archived_at = now /\ news'.archived_by = r.user.id)
               ELSE /\ r.code = 400
                    /\ news' = news
      ]_vars

\* the item was published by its author, archived later by an admin, and a
\* second archive request was answered with an error
C20_ArchiveTwice ==
    /\ news_last.op = "archive"
    /\ news_last.code = 400
    /\ news.status = ARCHIVED
    /\ news.published_by = news.author
    /\ news.archived_by # news.author
    /\ news.archived_at > news.published_at

\* end after start, and a recurrence end date not before the start date
WellFormed(e) ==
    /\ e.end_datetime # None
    /\ e.end_datetime > e.start_datetime
    /\ (e.recurrence_end_date = None
        \/ e.recurrence_end_date >= date(e.start_datetime))

\* C16: for every well-formed event, whatever its recurrence type and with or
\* without a time table, the generator returns a non-empty list ordered by
\* date.
C16_NonEmptyOrdered ==
    (gen_pc = "done" /\ WellFormed(gen_ev)) =>
        /\ Len(gen_out) >= 1
        /\ \A i, j \in 1..Len(gen_out) : i < j => gen_out[i].date <= gen_out[j].date

\* C17: the generator never returns more than 365 occurrences for one event.
C17_HorizonCap ==
    gen_pc = "done" => Len(gen_out) <= 365

\* C18: for a recurring event with a time table the generator emits, for each
\* day from the start date to the end limit and each table entry whose day
\* is that day's weekday, one occurrence with the entry's start and end time,
\* and nothing for days without a matching entry.
C18_TimeTableRule ==
    (/\ gen_pc = "done"
     /\ gen_ev.recurrence_type # NONE
     /\ gen_ev.recurrence_times # <<>>) =>
        LET rt == gen_ev.recurrence_times
            days == date(gen_ev.start_datetime)..RangeEnd(gen_ev)
            Entries(d) == {k \in 1..Len(rt) : rt[k].day = weekday(d)}
            On(d) == {i \in 1..Len(gen_out) : gen_out[i].date = d}
        IN  /\ \A i \in 1..Len(gen_out) : gen_out[i].date \in days
            /\ \A d \in days :
                 /\ Cardinality(On(d)) = Cardinality(Entries(d))
                 /\ \A k \in Entries(d) : \E i \in On(d) :
                      /\ rt[k].start_time # NoTime => gen_out[i].start_time = rt[k].start_time
                      /\ rt[k].end_time # NoTime => gen_out[i].end_time = rt[k].end_time

\* C21: a news list request from an unauthenticated user, with any query
\* parameters, never returns a news item whose status is draft or archived.
C21_AnonymousSeesOnlyPublished ==
    (list_last.op = "list" /\ ~list_last.user.is_authenticated) =>
        \A n \in list_last.results : n.status \notin {DRAFT, ARCHIVED}

\* without a status parameter an unauthenticated reader gets published items only
C21_DefaultListPublishedOnly ==
    (/\ list_last.op = "list"
     /\ ~list_last.user.is_authenticated
     /\ list_last.query_params.status = "") =>
        \A n \in list_last.results : n.status = PUBLISHED

\* the role of a stored user differs after the step
RoleChanged ==
    \E pk \in DOMAIN accounts : accounts'[pk].role # accounts[pk].role

\* C22: a user's role is changed only by an admin: a user created through
\* the public create endpoint gets role registered whatever the payload,
\* updating one's own profile leaves the role unchanged, a non-admin's request
\* to the role-update endpoint is refused, and an admin's role update with an
\* invalid role value is rejected leaving the role unchanged.
C22_RoleChangedOnlyByAdmin ==
    [][acct_last' # acct_last =>
        /\ (acct_last'.op = "create" /\ acct_last'.code = 201) =>
              /\ Len(accounts') = Len(accounts) + 1
              /\ accounts'[Len(accounts')].role = REGISTERED
        /\ acct_last'.op \in {"create", "me"} => ~RoleChanged
        /\ (/\ acct_last'.op = "role"
            /\ \/ acct_last'.user = None
               \/ ~is_admin(accounts[acct_last'.user])) =>
              /\ acct_last'.code \in {401, 403}
              /\ accounts' = accounts
        /\ (/\ acct_last'.op = "role"
            /\ acct_last'.user # None
            /\ is_admin(accounts[acct_last'.user])
            /\ acct_last'.pk \in DOMAIN accounts
            /\ acct_last'.role \notin Roles \cup {""}) =>
              /\ acct_last'.code = 400
              /\ accounts' = accounts
        /\ RoleChanged =>
              /\ acct_last'.op = "role"
              /\ acct_last'.user # None
              /\ is_admin(accounts[acct_last'.user])
              /\ acct_last'.code = 200
              /\ accounts'[acct_last'.pk].role = acct_last'.role]_vars

\* a user was created with role admin in the payload and is registered
C22_CreatedWithAdminPayload ==
    /\ acct_last.op = "create"
    /\ acct_last.code = 201
    /\ acct_last.role = ADMIN
    /\ accounts[acct_last.pk].role = REGISTERED

\* C23: the occurrence generator terminates for every event --- each pass of
\* its loop advances the current date by one day towards a fixed end limit ---
\* and the conflict validation terminates for every finite set of stored
\* events.
C23_Terminates ==
    /\ <>(loop.pc \in {"done", "raised"})
    /\ [][(loop.pc = "while" /\ loop'.pc = "while") =>
            /\ loop'.current_date = loop.current_date + 1
            /\ loop'.end_limit = loop.end_limit
            /\ loop.current_date <= loop.end_limit]_vars

\* a validation that expanded a recurring event over a year and went through
\* two stored events returned
C23_LongScanReturned ==
    /\ loop.pc = "done"
    /\ loop.scanned = 2
    /\ loop.self.recurrence_type = WEEKLY
    /\ loop.self.recurrence_end_date = None
    /\ Len(loop.my_occurrences) > 50

\* the i-th occurrence ends at 23:59 although no end of the event says so
EndOfDayAssumed(i) ==
    /\ gen_out[i].end_time = <<23, 59>>
    /\ (gen_ev.end_datetime = None
        \/ strftime(time(gen_ev.end_datetime)) # <<23, 59>>)
    /\ \A k \in 1..Len(gen_ev.recurrence_times) :
          gen_ev.recurrence_times[k].end_time # <<23, 59>>

\* C24: when an event has no end time-of-day the generator takes 23:59 as
\* the end, and it does so only for a NONE-recurrence event without an
\* explicit end; a range of zero length (recurrence end date equal to the
\* start date) produces a list of exactly one occurrence.
C24_EndOfDayAndZeroLength ==
    gen_pc \in {"done", "raised"} =>
        /\ (gen_ev.recurrence_type = NONE /\ gen_ev.end_datetime = None) =>
              /\ gen_pc = "done"
              /\ Len(gen_out) = 1
              /\ gen_out[1].end_time = <<23, 59>>
        /\ \A i \in 1..Len(gen_out) :
              EndOfDayAssumed(i) =>
                  gen_ev.recurrence_type = NONE /\ gen_ev.end_datetime = None
        /\ (/\ gen_ev.recurrence_type # NONE
            /\ gen_ev.recurrence_end_date = date(gen_ev.start_datetime)) =>
              gen_pc = "done" /\ Len(gen_out) = 1

\* the end of day is assumed for the entries of a weekly time table that
\* have no end_time, and nowhere else
C24_EndOfDayForTableEntries ==
    gen_pc = "done" =>
        \A i \in 1..Len(gen_out) :
            EndOfDayAssumed(i) =>
                /\ gen_ev.recurrence_type = WEEKLY
                /\ \E k \in 1..Len(gen_ev.recurrence_times) :
                      /\ gen_ev.recurrence_times[k].end_time = NoTime
                      /\ gen_ev.recurrence_times[k].day = weekday(gen_out[i].date)

\* a zero-length range of an event with an end and without a time table
\* gives one occurrence when the start date passes the weekday rule
C24_ZeroLengthBaseBranch ==
    (/\ gen_pc = "done"
     /\ gen_ev.recurrence_type # NONE
     /\ gen_ev.recurrence_times = <<>>
     /\ gen_ev.recurrence_end_date = date(gen_ev.start_datetime)) =>
        Len(gen_out) = IF should_include(gen_ev, date(gen_ev.start_datetime))
                       THEN 1 ELSE 0

\* the verdict without the pre-filter: some occurrence of self overlaps, by
\* _check_overlap, some occurrence of another pending or scheduled event at
\* the same facility
ConflictsUnfiltered(self, stored) ==
    \E o \in stored :
        /\ o.pk # self.pk
        /\ o.facility = self.facility
        /\ Active(o)
        /\ first_pair(generate_occurrences_for_validation(self),
                      generate_occurrences_for_validation(o)) # <<0, 0>>

\* C25: the pre-filter of the conflict validation never changes the verdict:
\* validating an event against the pre-filtered events gives the same result
\* as comparing its occurrences with those of every other pending or
\* scheduled event at the same facility.
C25_PreFilterNeutral ==
    /\ ("A" \in pair_done /\ resA.validated) =>
          (resA.kind = "conflict" <=> ConflictsUnfiltered(evA, {evB}))
    /\ ("B" \in pair_done /\ resB.validated) =>
          (resB.kind = "conflict" <=> ConflictsUnfiltered(evB, {evA}))

\* the pre-filter changes no verdict of an event whose recurrence end date,
\* if it has one, is not before its start date
C25_NeutralWhenEndNotBeforeStart ==
    ("A" \in pair_done /\ resA.validated
       /\ (evA.recurrence_end_date = None
           \/ evA.recurrence_end_date >= date(evA.start_datetime))) =>
          (resA.kind = "conflict" <=> ConflictsUnfiltered(evA, {evB}))

\* C26: an event or booking never conflicts with itself: re-validating a
\* stored event (or booking) with unchanged fields, while no other record has
\* changed, passes whenever it passed when it was stored.
C26_NoSelfConflict ==
    [][/\ \A r \in events' \ events : clean(r, events').kind = "ok"
       /\ \A b \in bookings' \ bookings : booking_clean(b, bookings').kind = "ok"]_vars

\* an active recurring event at a facility and an active booking were stored
\* and then saved again
C26_StoredAndSavedAgain ==
    /\ last.op = "change" /\ last.kind = "ok"
    /\ blast.op = "change" /\ blast.kind = "ok"
    /\ \E e \in events : Active(e) /\ e.facility # None /\ e.recurrence_type = WEEKLY
    /\ \E b \in bookings : b.status \in {CONFIRMED, PENDING}

BookingActive(b) == b.status \in {CONFIRMED, PENDING}

BookingsIntersect(a, b) == a.start_at < b.end_at /\ a.end_at > b.start_at

\* C27: after any sequence of booking saves that each pass Booking.clean
\* first, and of Booking.cancel calls, no two bookings of the same facility
\* with status confirmed or pending have intersecting time windows; a
\* cancelled booking no longer blocks its window: a booking is refused for an
\* overlap only when a confirmed or pending booking holds part of its window.
C27_ActiveBookingsDisjoint ==
    /\ \A a, b \in bookings :
          (/\ a.pk # b.pk
           /\ a.facility = b.facility
           /\ BookingActive(a) /\ BookingActive(b)) => ~BookingsIntersect(a, b)
    /\ blast.kind = "overlap" =>
          \E o \in bookings :
              /\ o.pk # blast.self.pk
              /\ o.facility = blast.self.facility
              /\ BookingActive(o)
              /\ BookingsIntersect(o, blast.self)

\* a booking was accepted for the window of a cancelled booking of the same
\* facility
C27_WindowBookedAgain ==
    /\ blast.op = "add" /\ blast.kind = "ok" /\ BookingActive(blast.self)
    /\ \E a, b \in bookings :
          /\ a.status = CANCELLED /\ BookingActive(b)
          /\ a.pk < b.pk
          /\ a.facility = b.facility
          /\ a.start_at = b.start_at /\ a.end_at = b.end_at
          /\ b = with_pk(blast.self, b.pk)

\* C28: for an event that has a capacity limit (capacity is not None), after
\* any sequence of new registrations saved with auto-confirmation, manual
\* confirm calls and cancel calls, the number of confirmed registrations never
\* exceeds the capacity; a new auto-confirmed registration arriving when the
\* event is full is put on the waitlist instead.
C28_ConfirmedWithinCapacity ==
    has_capacity_limit(reg_event) =>
        /\ confirmed_registrations_count(regs) <= reg_event.capacity
        /\ (/\ reg_last.op = "save"
            /\ reg_event.auto_confirm_registration
            /\ reg_last.confirmed_before >= reg_event.capacity) =>
              regs[reg_last.user] = WAITLIST

\* the same for the events whose capacity is at least one
C28_WithinPositiveCapacity ==
    (has_capacity_limit(reg_event) /\ reg_event.capacity >= 1) =>
        /\ confirmed_registrations_count(regs) <= reg_event.capacity
        /\ (/\ reg_last.op = "save"
            /\ reg_event.auto_confirm_registration
            /\ reg_last.confirmed_before >= reg_event.capacity) =>
              regs[reg_last.user] = WAITLIST

\* C29: approve and reject called with a reviewer who is not an admin raise
\* PermissionError and leave the application's status, reviewed_by,
\* reviewed_at and admin_note and the applicant's role unchanged; called by
\* an admin, approve sets the status to approved and the applicant's role to
\* member, and reject sets the status to rejected without changing the
\* applicant's role.
C29_ReviewByAdminOnly ==
    [][(app_last' # app_last \/ apps' # apps \/ app_roles' # app_roles) =>
        LET reviewer == app_last'.reviewer
            pk == app_last'.pk
            admin == reviewer # None /\ is_admin(app_roles[reviewer])
        IN  /\ app_last'.op \in {"approve", "reject"}
            /\ ~admin => /\ app_last'.raised
                         /\ apps' = apps
                         /\ app_roles' = app_roles
            /\ admin => /\ ~app_last'.raised
                        /\ apps'[pk].reviewed_by = reviewer
                        /\ \A k \in DOMAIN apps : k # pk => apps'[k] = apps[k]
            /\ (admin /\ app_last'.op = "approve") =>
                  /\ apps'[pk].status = APPROVED
                  /\ app_roles'[apps[pk].user].role = MEMBER
                  /\ \A u \in DOMAIN app_roles :
                        u # apps[pk].user => app_roles'[u] = app_roles[u]
            /\ (admin /\ app_last'.op = "reject") =>
                  /\ apps'[pk].status = REJECTED
                  /\ apps'[pk].admin_note =
                        IF app_last'.note # "" THEN app_last'.note
                        ELSE apps[pk].admin_note
                  /\ app_roles' = app_roles]_vars

\* a member's call was refused on an application an admin had approved
C29_MemberRefusedAfterApproval ==
    /\ app_last.raised
    /\ app_last.reviewer # None
    /\ app_roles[app_last.reviewer].role = MEMBER
    /\ apps[app_last.pk].status = APPROVED
    /\ apps[app_last.pk].reviewed_by # None

\* C30: approving a membership application never reduces the applicant's
\* access: after any sequence of approve and reject calls on a user's
\* applications, a user who had the admin role before still has is_admin
\* true, and a user whose application was approved has is_member true.
C30_AccessNotReduced ==
    \A u \in DOMAIN app_roles :
        /\ AppUsers[u].role = ADMIN => is_admin(app_roles[u])
        /\ (\E k \in DOMAIN apps : apps[k].user = u /\ apps[k].status = APPROVED) =>
              is_member(app_roles[u])

\* the second half alone: the applicant of an approved application is a
\* member, and nobody who was a member stops being one
C30_ApprovedIsMember ==
    \A u \in DOMAIN app_roles :
        /\ is_member(AppUsers[u]) => is_member(app_roles[u])
        /\ (\E k \in DOMAIN apps : apps[k].user = u /\ apps[k].status = APPROVED) =>
              is_member(app_roles[u])

====
